---- MODULE Spec2Model ----
\* State-machine model of fractrade-hl-simple: the order-lifecycle operations of
\* HyperliquidClient (src/src/fractrade_hl_simple/hyperliquid.py) and the
\* trailing-stop controller (src/examples/trailing_stop.py), run against an
\* exchange whose requests may fail.
\*
\* Prices are integers in units of 10^-PriceDigits, sizes in units of
\* 10^-SizeDigits.  The price 0 stands for Python's None / falsy price.
\* The client is authenticated in every state (is_authenticated() is True).
EXTENDS Integers, Sequences, FiniteSets, TLC

\* ------------------------------------------------------------------ bounds
\* longest open-order book an initial state starts from
MaxBook == 3
\* highest order id the exchange hands out
MaxOid == 4
\* client calls in one behaviour that starts from an arbitrary book
MaxCalls == 2
\* client calls and exchange fills in one behaviour that starts from an empty book
MaxLife == 4
\* largest position, in lots
MaxLots == 1
\* decimal places kept in prices and in sizes
PriceDigits == 2
SizeDigits == 4
MaxDigits == 6
Window == 5
UrgencySteps == 4
MaxSpread == 2
MaxPremium == 2

\* ------------------------------------------------------- program constants
PriceThreshold == 100000
DefaultSizeDecimals == 3
SigFigs == 5
\* market-order slippage 0.005, in thousandths
SlippagePermille == 5

VARIABLES orders, pos, mid, nextOid, newestFirst, call, filledIds, cancelledIds, ctl,
          steps

vars == <<orders, pos, mid, nextOid, newestFirst, call, filledIds, cancelledIds, ctl,
          steps>>

\* ------------------------------------------------------------------ domains
Symbols == {"BTC", "ETH"}
\* response order of assetPositions in the user state
SymOrder == <<"BTC", "ETH">>
\* cancel_all_orders(symbol=None)
NoSymbol == "none"

PriceScale == 10 ^ PriceDigits
SizeScale == 10 ^ SizeDigits

\* ------------------------------------------------------------- formatting
RECURSIVE NumDigits(_)
NumDigits(n) == IF n < 10 THEN 1 ELSE 1 + NumDigits(n \div 10)

RoundDown(n, q) == (n \div q) * q

\* round n to a multiple of q, ties to even (Python round / '%.5g')
RoundHalfEven(n, q) ==
  LET k == n \div q
      r == n - k * q
  IN IF 2 * r < q THEN k * q
     ELSE IF 2 * r > q THEN (k + 1) * q
     ELSE IF k % 2 = 0 THEN k * q ELSE (k + 1) * q

\* float(f"{x:.5g}")
Format5g(n) ==
  IF NumDigits(n) <= SigFigs THEN n
  ELSE RoundHalfEven(n, 10 ^ (NumDigits(n) - SigFigs))

\* client.market_specs, fetched at construction: symbol -> size_decimals
market_specs == [s \in {"BTC"} |-> SizeDigits]

SizeDecimals(sym) ==
  IF sym \in DOMAIN market_specs THEN market_specs[sym] ELSE DefaultSizeDecimals

\* round(float(size), size_decimals) of the size m / 10^d, at the same scale
FormatSizeAt(sym, m, d) ==
  IF d <= SizeDecimals(sym) THEN m
  ELSE RoundHalfEven(m, 10 ^ (d - SizeDecimals(sym)))

\* the formatted price of m / 10^d, at the same scale; m / 10^d > 100_000 is
\* compared on the integer part and the remainder
FormatPriceAt(m, d) ==
  LET whole == m \div (10 ^ d)
      frac == m % (10 ^ d)
  IN IF whole > PriceThreshold \/ (whole = PriceThreshold /\ frac > 0)
     THEN RoundHalfEven(m, 10 ^ d)
     ELSE Format5g(m)

validate_and_format_order(sym, size, sizeDigits, price, priceDigits) ==
  [sz |-> FormatSizeAt(sym, size, sizeDigits), px |-> FormatPriceAt(price, priceDigits)]

FormatSize(sym, sz) == FormatSizeAt(sym, sz, SizeDigits)

FormatPrice(p) == FormatPriceAt(p, PriceDigits)

\* ------------------------------------------------------- requests, reports
\* one request sent to the exchange: t is "cancel", "order" or "modify"
Req(t, coin, oid, isBuy, sz, px, kind, ro, tif) ==
  [t |-> t, coin |-> coin, oid |-> oid, isBuy |-> isBuy, sz |-> sz, px |-> px,
   kind |-> kind, ro |-> ro, tif |-> tif, trig |-> 0]

\* a request whose order_type is a trigger: px is its limit_px, trig the
\* triggerPx of the order_type
TriggerReq(req, trig) == [req EXCEPT !.trig = trig]

CancelReq(coin, oid) == Req("cancel", coin, oid, FALSE, 0, 0, "none", FALSE, "none")

\* an Order returned to the caller; oid 0 is "no order" (None)
Report(oid, sym, type, status, px, isBuy, sz) ==
  [oid |-> oid, sym |-> sym, type |-> type, status |-> status, px |-> px,
   isBuy |-> isBuy, sz |-> sz]

NoOrder == Report(0, "none", "none", "none", 0, FALSE, 0)

\* the record of the client call that ran last: err is the text of the
\* exception it raised, part by part, resp the exchange's answer to its order
\* submission, readFailed whether a price or position fetch it made raised
NoCall ==
  [op |-> "none", sym |-> "none", arg |-> 0, reqs |-> <<>>, out |-> "none",
   ord |-> NoOrder, list |-> <<>>, num |-> 0, path |-> "none",
   enumFailed |-> FALSE, itemFailed |-> FALSE, wrongSide |-> FALSE,
   err |-> <<>>, resp |-> "none", isBuy |-> FALSE, size |-> 0, postOnly |-> FALSE,
   tif |-> "none", given |-> FALSE, readFailed |-> FALSE, sizeDigits |-> 0,
   priceDigits |-> 0, side |-> "none", urgency |-> 0, bid |-> 0, ask |-> 0,
   price |-> 0, bad |-> {}]

\* ------------------------------------------------- exchange (collaborator)
\* an open order on the exchange: kind is the tpsl tag, "limit" for none
BookOrder(oid, coin, kind, px, isBuy, sz) ==
  [oid |-> oid, coin |-> coin, kind |-> kind, px |-> px, isBuy |-> isBuy, sz |-> sz]

OidsOf(ords) == {ords[i].oid : i \in 1..Len(ords)}

Place(ords, o) == IF newestFirst THEN <<o>> \o ords ELSE Append(ords, o)

RemoveAll(ords, ids) == SelectSeq(ords, LAMBDA o : o.oid \notin ids)

\* one more client call, while the behaviour has calls left
Step == steps > 0 /\ steps' = steps - 1

\* ------------------------------------------------------ cancel_all_orders
\* the loop "for order in open_orders: try cancel except log" with the set
\* fails of order ids whose cancel request raises
RECURSIVE CancelEachAbort(_, _)
CancelEachAbort(list, fails) ==
  IF list = <<>> THEN [reqs |-> <<>>, done |-> {}]
  ELSE LET h == Head(list)
       IN IF h.oid \in fails
          THEN [reqs |-> <<CancelReq(h.coin, h.oid)>>, done |-> {}]
          ELSE LET rest == CancelEachAbort(Tail(list), fails)
               IN [reqs |-> <<CancelReq(h.coin, h.oid)>> \o rest.reqs,
                   done |-> {h.oid} \cup rest.done]

RECURSIVE CancelEach(_, _)
CancelEach(list, fails) ==
  IF list = <<>> THEN [reqs |-> <<>>, done |-> {}]
  ELSE LET h == Head(list)
           rest == CancelEach(Tail(list), fails)
       IN [reqs |-> <<CancelReq(h.coin, h.oid)>> \o rest.reqs,
           done |-> (IF h.oid \in fails THEN {} ELSE {h.oid}) \cup rest.done]

FilterSymbolIgnored(list, symbol) == list

FilterSymbolInverted(list, symbol) ==
  IF symbol = NoSymbol THEN list
  ELSE SelectSeq(list, LAMBDA o : o.coin # symbol)

\* "if symbol: open_orders = [o for o in open_orders if o['coin'] == symbol]"
FilterSymbol(list, symbol) ==
  IF symbol = NoSymbol THEN list
  ELSE SelectSeq(list, LAMBDA o : o.coin = symbol)

\* cancel_all_orders(symbol) / cancel_all(): enumFails is info.open_orders raising
CancelAllResult(op, symbol, enumFails, fails) ==
  IF enumFails
  THEN [orders |-> orders, done |-> {},
        call |-> [NoCall EXCEPT !.op = op, !.sym = symbol, !.out = "ret",
                                !.enumFailed = TRUE]]
  ELSE LET list == FilterSymbol(orders, symbol)
           r == CancelEach(list, fails)
       IN [orders |-> RemoveAll(orders, r.done), done |-> r.done,
           call |-> [NoCall EXCEPT !.op = op, !.sym = symbol, !.out = "ret",
                                   !.reqs = r.reqs, !.list = list,
                                   !.itemFailed = (OidsOf(list) \cap fails # {})]]

cancel_all_orders(symbol) ==
  \E enumFails \in BOOLEAN, fails \in SUBSET OidsOf(FilterSymbol(orders, symbol)) :
    LET r == CancelAllResult("cancel_all_orders", symbol, enumFails, fails)
    IN /\ Step
       /\ orders' = r.orders
       /\ cancelledIds' = cancelledIds \cup r.done
       /\ call' = r.call
       /\ UNCHANGED <<pos, mid, nextOid, newestFirst, filledIds, ctl>>

cancel_all ==
  \E enumFails \in BOOLEAN, fails \in SUBSET OidsOf(orders) :
    LET r == CancelAllResult("cancel_all", NoSymbol, enumFails, fails)
    IN /\ Step
       /\ orders' = r.orders
       /\ cancelledIds' = cancelledIds \cup r.done
       /\ call' = r.call
       /\ UNCHANGED <<pos, mid, nextOid, newestFirst, filledIds, ctl>>

\* ------------------------------------------------------------- positions
\* pos maps the symbols listed in assetPositions to their signed size
Lot == SizeScale \div 2

Abs(n) == IF n < 0 THEN 0 - n ELSE n

\* get_positions(): the listed positions, in response order
PositionList(p) == SelectSeq(SymOrder, LAMBDA s : s \in DOMAIN p)

\* "next((p for p in positions if p.symbol == symbol), None)" finds one
FindPosition(p, sym) == sym \in DOMAIN p

SetPos(p, sym, n) ==
  IF n = 0 THEN [x \in DOMAIN p \ {sym} |-> p[x]]
  ELSE [x \in DOMAIN p \cup {sym} |-> IF x = sym THEN n ELSE p[x]]

SizeOf(p, sym) == IF sym \in DOMAIN p THEN p[sym] ELSE 0

\* the exchange fills an order of sz: a reduce-only order only shrinks the position
AfterFill(p, sym, isBuy, sz, ro) ==
  LET cur == SizeOf(p, sym)
      raw == IF isBuy THEN cur + sz ELSE cur - sz
      new == IF ~ro THEN raw
             ELSE IF cur > 0 /\ ~isBuy THEN (IF raw < 0 THEN 0 ELSE raw)
             ELSE IF cur < 0 /\ isBuy THEN (IF raw > 0 THEN 0 ELSE raw)
             ELSE cur
  IN SetPos(p, sym, new)

\* the exchange state a call threads through its requests
World(ords, oid, p) == [orders |-> ords, nextOid |-> oid, pos |-> p]

Here == World(orders, nextOid, pos)

\* result of a sub-operation: the world after it, the requests it sent, how it
\* ended ("ret" or "raise") and the Order it returned
Res(w, reqs, out, ord) == [w |-> w, reqs |-> reqs, out |-> out, ord |-> ord]

\* what exchange.order may answer to a limit order: an IOC order never rests,
\* ids and positions stay within the bounds
SubmitOutcomes(w, sym, isBuy, sz, ro, tif) ==
  {"error", "raise", "weird"}
    \cup (IF tif # "Ioc" /\ w.nextOid <= MaxOid THEN {"resting"} ELSE {})
    \cup (IF /\ w.nextOid <= MaxOid
             /\ Abs(SizeOf(AfterFill(w.pos, sym, isBuy, sz, ro), sym)) <= MaxLots * Lot
             /\ (ro => SizeOf(w.pos, sym) # SizeOf(AfterFill(w.pos, sym, isBuy, sz, ro), sym))
          THEN {"filled"} ELSE {})

\* ----------------------------------------------------------- create_order
\* how create_order reads statuses[0] of the response
InterpretSwapped(so) ==
  CASE so = "resting" -> "filled"
    [] so = "filled" -> "open"
    [] OTHER -> "raise"

InterpretSubmit(so) ==
  CASE so = "resting" -> "open"
    [] so = "filled" -> "filled"
    [] OTHER -> "raise"

\* the texts of the errors an order call raises
PostOnlyIocError == <<"post_only cannot be used with IOC orders">>

\* an exception of the transport, raised by a request or a fetch
TransportError == <<"connection failed">>

\* statuses[0]["error"] of a rejected order
ExchangeMessage == "Insufficient margin"

SubmitFailureGeneric(so) == <<"Unexpected response format">>

\* what the try block of create_order raises for a response it does not return
\* an Order for
SubmitFailure(so) ==
  CASE so = "error" -> <<"Order error", ExchangeMessage>>
    [] so = "raise" -> TransportError
    [] OTHER -> <<"Unexpected response format">>

\* statuses[0]["filled"]["avgPx"]: the exchange fills at the mid price
AvgPx(sym) == mid[sym]

\* a call that raised the exception with text err
Raised(w, reqs, err) == Res(w, reqs, "raise", NoOrder) @@ [err |-> err]

\* a call that returned ord
Returned(w, reqs, ord) == Res(w, reqs, "ret", ord) @@ [err |-> <<>>]

create_orderRetrying(w, sym, size, isBuy, limit, ro, postOnly, tif, priceFails, so) ==
  LET req == Req("order", sym, 0, isBuy, FormatSize(sym, size), FormatPrice(limit), "limit",
                 ro, tif)
  IN Raised(w, <<req, req>>, <<"Failed to place order">> \o SubmitFailure(so))

\* limit 0 is limit_price=None: market order at mid +- 0.5 %
create_order(w, sym, size, isBuy, limit, ro, postOnly, tif, priceFails, so) ==
  IF limit = 0 /\ priceFails THEN Raised(w, <<>>, TransportError)
  ELSE
    LET raw == IF limit # 0 THEN limit
               ELSE IF isBuy THEN (mid[sym] * (1000 + SlippagePermille)) \div 1000
               ELSE (mid[sym] * (1000 - SlippagePermille)) \div 1000
        sz == FormatSize(sym, size)
        px == FormatPrice(raw)
        req == Req("order", sym, 0, isBuy, sz, px, "limit", ro, tif)
        id == w.nextOid
    IN IF postOnly /\ tif = "Ioc" THEN Raised(w, <<>>, PostOnlyIocError)
       ELSE IF so = "resting"
       THEN Returned(World(Place(w.orders, BookOrder(id, sym, "limit", px, isBuy, sz)),
                           id + 1, w.pos),
                     <<req>>,
                     Report(id, sym, "limit", InterpretSubmit(so), px, isBuy, sz))
       ELSE IF so = "filled"
       THEN Returned(World(w.orders, id + 1, AfterFill(w.pos, sym, isBuy, sz, ro)),
                     <<req>>,
                     Report(id, sym, "limit", InterpretSubmit(so), px, isBuy, sz)
                       @@ [avg |-> AvgPx(sym)])
       ELSE Raised(w, <<req>>, <<"Failed to place order">> \o SubmitFailure(so))

\* ------------------------------------------------------------------ close
\* given is close(symbol, position) with the position passed by the caller
NoPositionToClose == <<"No open position found">>

closeSameSide(w, sym, given, stateFails, priceFails, so) ==
  IF ~given /\ stateFails THEN Raised(w, <<>>, TransportError)
  ELSE IF ~FindPosition(w.pos, sym) THEN Raised(w, <<>>, NoPositionToClose)
  ELSE create_order(w, sym, Abs(w.pos[sym]), w.pos[sym] > 0, 0, TRUE, FALSE, "Ioc",
                    priceFails, so)

close(w, sym, given, stateFails, priceFails, so) ==
  IF ~given /\ stateFails THEN Raised(w, <<>>, TransportError)
  ELSE IF ~FindPosition(w.pos, sym) THEN Raised(w, <<>>, NoPositionToClose)
  ELSE create_order(w, sym, Abs(w.pos[sym]), w.pos[sym] < 0, 0, TRUE, FALSE, "Ioc",
                    priceFails, so)

\* ---------------------------------------------------- close_all_positions
\* the loop "for position in positions: try close except log"; the positions
\* were read once, before the loop
RECURSIVE CloseEach(_, _, _, _)
CloseEach(w, list, priceFail, so) ==
  IF list = <<>> THEN [w |-> w, reqs |-> <<>>, got |-> <<>>, failed |-> FALSE, out |-> "ret"]
  ELSE LET s == Head(list)
           r == close(w, s, TRUE, FALSE, s \in priceFail, so[s])
           rest == CloseEach(r.w, Tail(list), priceFail, so)
       IN [w |-> rest.w, reqs |-> r.reqs \o rest.reqs,
           got |-> (IF r.out = "ret" THEN <<r.ord>> ELSE <<>>) \o rest.got,
           failed |-> (r.out = "raise" \/ rest.failed), out |-> "ret"]

FilledIn(list) == {list[i].oid : i \in {j \in 1..Len(list) : list[j].status = "filled"}}

close_all_positions ==
  \E stateFails \in BOOLEAN, priceFail \in SUBSET DOMAIN pos,
     so \in [Symbols -> {"filled", "error", "raise"}] :
    /\ Step
    /\ \A s \in DOMAIN pos :
          so[s] \in SubmitOutcomes(Here, s, pos[s] < 0, FormatSize(s, Abs(pos[s])), TRUE, "Ioc")
    /\ \A s \in Symbols \ DOMAIN pos : so[s] = "error"
    /\ IF stateFails
       THEN /\ call' = [NoCall EXCEPT !.op = "close_all_positions", !.out = "raise",
                                      !.enumFailed = TRUE]
            /\ UNCHANGED <<orders, pos, nextOid, filledIds>>
       ELSE LET r == CloseEach(Here, PositionList(pos), priceFail, so)
            IN /\ call' = [NoCall EXCEPT !.op = "close_all_positions", !.out = r.out,
                                         !.reqs = r.reqs, !.list = r.got,
                                         !.itemFailed = r.failed]
               /\ orders' = r.w.orders
               /\ pos' = r.w.pos
               /\ nextOid' = r.w.nextOid
               /\ filledIds' = filledIds \cup FilledIn(r.got)
    /\ UNCHANGED <<mid, newestFirst, cancelledIds, ctl>>

\* --------------------------------------------------------- get_open_orders
\* the exchange's orderType text of an open order, word by word
OrderTypeText(kind) ==
  CASE kind = "sl" -> <<"Stop", "Market">>
    [] kind = "tp" -> <<"Take", "Profit", "Market">>
    [] OTHER -> <<"Limit">>

\* one entry of the frontend_open_orders response
RawOrder(o) ==
  [oid |-> o.oid, coin |-> o.coin, isTrigger |-> (o.kind # "limit"),
   orderType |-> OrderTypeText(o.kind), px |-> o.px, isBuy |-> o.isBuy, sz |-> o.sz]

\* Python's "pat in text" on the words of the text
Contains(text, pat) ==
  \E i \in 0..(Len(text) - Len(pat)) : \A j \in 1..Len(pat) : text[i + j] = pat[j]

ClassifyRawAsStop(raw) == IF raw.isTrigger THEN "stop_loss" ELSE "limit"

\* the "type" get_open_orders gives a raw order
ClassifyRaw(raw) ==
  IF raw.isTrigger
  THEN IF Contains(raw.orderType, <<"Take", "Profit">>) THEN "take_profit"
       ELSE IF Contains(raw.orderType, <<"Stop">>) THEN "stop_loss"
       ELSE "unknown"
  ELSE "limit"

\* the order_type of a converted order: <<>> is an absent sub-shape
OrderTypeOf(raw) ==
  IF raw.isTrigger
  THEN [limit |-> <<>>,
        trigger |-> <<[triggerPx |-> raw.px,
                       tpsl |-> IF Contains(raw.orderType, <<"Take", "Profit">>) THEN "tp"
                                ELSE IF Contains(raw.orderType, <<"Stop">>) THEN "sl"
                                ELSE "none"]>>]
  ELSE [limit |-> <<[tif |-> "Gtc", px |-> raw.px]>>, trigger |-> <<>>]

ConvertOrder(raw) ==
  Report(raw.oid, raw.coin, ClassifyRaw(raw), "open", raw.px, raw.isBuy, raw.sz)
    @@ [order_type |-> OrderTypeOf(raw)]

ConvertAll(list) == [i \in 1..Len(list) |-> ConvertOrder(RawOrder(list[i]))]

ConvertEachAbort(list, bad) ==
  IF \E i \in DOMAIN list : list[i].oid \in bad THEN <<>> ELSE ConvertAll(list)

\* the conversion loop: bad are the raw orders whose conversion raises, each
\* caught, logged and left out
ConvertEach(list, bad) == ConvertAll(SelectSeq(list, LAMBDA o : o.oid \notin bad))

\* get_open_orders(symbol): fetchFails is info.frontend_open_orders raising
open_orders_converted(ords, symbol, fetchFails, bad) ==
  IF fetchFails THEN [out |-> "ret", list |-> <<>>]
  ELSE [out |-> "ret", list |-> ConvertEach(FilterSymbol(ords, symbol), bad)]

\* get_open_orders(symbol) over raw orders that all convert
get_open_orders(ords, symbol, fetchFails) ==
  open_orders_converted(ords, symbol, fetchFails, {})

OfTypeAny(list, type) == list

OfType(list, type) == SelectSeq(list, LAMBDA o : o.type = type)

\* the classification update_stop_loss / update_take_profit look for
TypeOfTag(tag) == IF tag = "sl" THEN "stop_loss" ELSE "take_profit"

\* get_stop_loss_price / get_take_profit_price: 0 is None
first_trigger_price(ords, symbol, tag, fetchFails) ==
  LET got == get_open_orders(ords, symbol, fetchFails)
      mine == OfType(got.list, TypeOfTag(tag))
  IN [out |-> got.out, num |-> IF mine = <<>> THEN 0 ELSE mine[1].px]

\* ------------------------------------------------- stop_loss / take_profit
\* what exchange.order may answer to a trigger order
TriggerOutcomes(w) ==
  {"error", "raise", "notok", "weird"}
    \cup (IF w.nextOid <= MaxOid THEN {"resting"} ELSE {})

\* stop_loss (tag "sl") and take_profit (tag "tp"); stateFails is the user
\* state fetch of get_positions raising
NoPositionFound == <<"No position found">>

\* what stop_loss / take_profit raise for a response they return no Order for
TriggerFailure(so) ==
  CASE so = "error" -> <<"order error", ExchangeMessage>>
    [] so = "notok" -> <<"Failed to place order">>
    [] so = "raise" -> TransportError
    [] OTHER -> <<"Unexpected response format">>

place_triggerSilent(w, sym, size, trigger, isBuy, tag, stateFails, so) ==
  LET px == FormatPrice(trigger)
      req == TriggerReq(Req("order", sym, 0, isBuy, FormatSize(sym, size), px, tag,
                            TRUE, "Gtc"), px)
      id == w.nextOid
  IN IF ~stateFails /\ FindPosition(w.pos, sym) /\ so = "resting"
     THEN Returned(World(Place(w.orders, BookOrder(id, sym, tag, px, isBuy,
                                                   FormatSize(sym, size))),
                         id + 1, w.pos),
                   <<req>>, Report(id, sym, "unset", "open", px, isBuy,
                                   FormatSize(sym, size)))
     ELSE Returned(w, <<req>>, NoOrder)

place_triggerUnchecked(w, sym, size, trigger, isBuy, tag, stateFails, so) ==
  LET req == TriggerReq(Req("order", sym, 0, isBuy, FormatSize(sym, size),
                              FormatPrice(trigger), tag, TRUE, "Gtc"),
                          FormatPrice(trigger))
  IN Raised(w, <<req>>, TriggerFailure(so))

place_trigger(w, sym, size, trigger, isBuy, tag, stateFails, so) ==
  IF stateFails THEN Raised(w, <<>>, TransportError)
  ELSE IF ~FindPosition(w.pos, sym) THEN Raised(w, <<>>, NoPositionFound)
  ELSE
    LET sz == FormatSize(sym, size)
        px == FormatPrice(trigger)
        req == TriggerReq(Req("order", sym, 0, isBuy, sz, px, tag, TRUE, "Gtc"), px)
        id == w.nextOid
    IN IF so = "resting"
       THEN Returned(World(Place(w.orders, BookOrder(id, sym, tag, px, isBuy, sz)),
                           id + 1, w.pos),
                     <<req>>, Report(id, sym, "unset", "open", px, isBuy, sz))
       ELSE Raised(w, <<req>>, TriggerFailure(so))

\* ----------------------------------------------------------- modify_order
\* what exchange.modify_order may answer: only an open order can be modified
ModifyOutcomes(w, oid) ==
  {"error", "raise", "notok", "weird"}
    \cup (IF oid \in OidsOf(w.orders) THEN {"resting"} ELSE {})

Modified(ords, oid, px, sz, isBuy, kind) ==
  [i \in 1..Len(ords) |->
     IF ords[i].oid = oid
     THEN [ords[i] EXCEPT !.px = px, !.sz = sz, !.isBuy = isBuy, !.kind = kind]
     ELSE ords[i]]

TypeOfOrderType(tag) ==
  CASE tag = "tp" -> "take_profit"
    [] tag = "sl" -> "stop_loss"
    [] OTHER -> "limit"

\* modify_order; tag is the tpsl of order_type, "limit" for a limit order
\* type, trigger the triggerPx of the order_type (0 without one). Size and
\* price are formatted; the order_type goes to the exchange as the caller
\* built it, so the modified order triggers at the caller's triggerPx while
\* the Order returned carries the formatted price.
modify_order(w, oid, sym, isBuy, size, price, tag, trigger, ro, mo) ==
  LET sz == FormatSize(sym, size)
      px == FormatPrice(price)
      req == TriggerReq(Req("modify", sym, oid, isBuy, sz, px, tag, ro, "Gtc"), trigger)
      booked == IF tag = "limit" THEN px ELSE trigger
  IN IF mo = "resting"
     THEN Res(World(Modified(w.orders, oid, booked, sz, isBuy, tag), w.nextOid, w.pos),
              <<req>>, "ret",
              Report(oid, sym, TypeOfOrderType(tag), "open", px, isBuy, sz))
     ELSE Res(w, <<req>>, "raise", NoOrder)

\* ------------------------------------ update_stop_loss / update_take_profit
\* the fallback loop "for order in sl_orders: try cancel except log"
RECURSIVE CancelListedAbort(_, _, _)
CancelListedAbort(list, sym, fails) ==
  IF list = <<>> THEN [reqs |-> <<>>, done |-> {}]
  ELSE LET h == Head(list)
       IN IF h.oid \in fails
          THEN [reqs |-> <<CancelReq(sym, h.oid)>>, done |-> {}]
          ELSE LET rest == CancelListedAbort(Tail(list), sym, fails)
               IN [reqs |-> <<CancelReq(sym, h.oid)>> \o rest.reqs,
                   done |-> {h.oid} \cup rest.done]

RECURSIVE CancelListed(_, _, _)
CancelListed(list, sym, fails) ==
  IF list = <<>> THEN [reqs |-> <<>>, done |-> {}]
  ELSE LET h == Head(list)
           rest == CancelListed(Tail(list), sym, fails)
       IN [reqs |-> <<CancelReq(sym, h.oid)>> \o rest.reqs,
           done |-> (IF h.oid \in fails THEN {} ELSE {h.oid}) \cup rest.done]

\* result of an update: Res plus the path taken, the ids cancelled and
\* whether a position lookup raised
Upd(r, reqs, path, done, lookupFailed) ==
  [w |-> r.w, reqs |-> reqs \o r.reqs, out |-> r.out, ord |-> r.ord, path |-> path,
   done |-> done, lookupFailed |-> lookupFailed]

\* e.stateFailAt: which user-state fetch of the call raises (0: none;
\* 1: get_position_size, 2: get_position_direction, 3: get_positions in
\* stop_loss / take_profit); e.fetchFails: the open-order fetch raises;
\* e.mo: answer to the modify; e.fails: cancel requests that fail; e.so:
\* answer to the submission
update_trigger(w, sym, newPrice, tag, e) ==
  IF e.stateFailAt = 1 THEN Upd(Res(w, <<>>, "raise", NoOrder), <<>>, "none", {}, TRUE)
  ELSE IF ~FindPosition(w.pos, sym)
  THEN Upd(Res(w, <<>>, "raise", NoOrder), <<>>, "none", {}, FALSE)
  ELSE
    LET size == Abs(w.pos[sym])
        isBuy == ~(w.pos[sym] > 0)
        mine == OfType(get_open_orders(w.orders, sym, e.fetchFails).list, TypeOfTag(tag))
    IN IF mine = <<>>
       THEN IF e.stateFailAt = 2
            THEN Upd(Res(w, <<>>, "raise", NoOrder), <<>>, "create", {}, TRUE)
            ELSE Upd(place_trigger(w, sym, size, newPrice, isBuy, tag,
                                   e.stateFailAt = 3, e.so),
                     <<>>, "create", {}, e.stateFailAt = 3)
       ELSE
         LET first == mine[1]
             m == modify_order(w, first.oid, sym, first.isBuy, first.sz, newPrice,
                               tag, newPrice, TRUE, e.mo)
         IN IF m.out = "ret" THEN Upd(m, <<>>, "modify", {}, FALSE)
            ELSE
              LET c == CancelListed(mine, sym, e.fails)
                  w2 == World(RemoveAll(w.orders, c.done), w.nextOid, w.pos)
                  sent == m.reqs \o c.reqs
              IN IF e.stateFailAt = 2
                 THEN Upd(Res(w2, <<>>, "raise", NoOrder), sent, "fallback", c.done, TRUE)
                 ELSE Upd(place_trigger(w2, sym, size, newPrice, isBuy, tag,
                                        e.stateFailAt = 3, e.so),
                          sent, "fallback", c.done, e.stateFailAt = 3)

\* ids of the open orders of a symbol that carry a tpsl tag
TaggedOids(ords, sym, tag) ==
  {ords[i].oid : i \in {j \in 1..Len(ords) : ords[j].coin = sym /\ ords[j].kind = tag}}

Env(stateFailAt, fetchFails, mo, fails, so) ==
  [stateFailAt |-> stateFailAt, fetchFails |-> fetchFails, mo |-> mo, fails |-> fails,
   so |-> so]

\* the environment answers only the requests the call makes: what the call
\* never asks keeps one fixed answer
Answered(w, sym, tag, e) ==
  LET untouched == ~e.fetchFails /\ e.mo = "raise" /\ e.fails = {} /\ e.so = "error"
      found == ~e.fetchFails /\ TaggedOids(w.orders, sym, tag) # {}
  IN /\ (e.stateFailAt = 1 \/ ~FindPosition(w.pos, sym)) =>
          (untouched /\ e.stateFailAt \in {0, 1})
     /\ ~found => (e.mo = "raise" /\ e.fails = {})
     /\ (found /\ e.mo = "resting") =>
          (e.fails = {} /\ e.so = "error" /\ e.stateFailAt = 0)
     /\ e.stateFailAt \in {2, 3} => e.so = "error"

OpName(prefix, tag) ==
  CASE prefix = "update" /\ tag = "sl" -> "update_stop_loss"
    [] prefix = "update" /\ tag = "tp" -> "update_take_profit"
    [] prefix = "get" /\ tag = "sl" -> "get_stop_loss_price"
    [] prefix = "get" /\ tag = "tp" -> "get_take_profit_price"
    [] prefix = "place" /\ tag = "sl" -> "stop_loss"
    [] OTHER -> "take_profit"

UpdateTrigger(sym, newPrice, tag) ==
  \E stateFailAt \in 0..3, fetchFails \in BOOLEAN, mo \in {"resting", "raise"},
     fails \in SUBSET TaggedOids(orders, sym, tag),
     so \in {"resting", "error"} \cap TriggerOutcomes(Here) :
    LET e == Env(stateFailAt, fetchFails, mo, fails, so)
        r == update_trigger(Here, sym, newPrice, tag, e)
    IN /\ Step
       /\ Answered(Here, sym, tag, e)
       /\ orders' = r.w.orders
       /\ nextOid' = r.w.nextOid
       /\ cancelledIds' = cancelledIds \cup r.done
       /\ call' = [NoCall EXCEPT !.op = OpName("update", tag), !.sym = sym,
                                 !.arg = newPrice, !.reqs = r.reqs, !.out = r.out,
                                 !.ord = r.ord, !.path = r.path,
                                 !.enumFailed = e.fetchFails,
                                 !.itemFailed = r.lookupFailed]
       /\ UNCHANGED <<pos, mid, newestFirst, filledIds, ctl>>

update_stop_loss(sym, newPrice) == UpdateTrigger(sym, newPrice, "sl")

update_take_profit(sym, newPrice) == UpdateTrigger(sym, newPrice, "tp")

\* --------------------------------------------------------------- queries
GetTriggerPrice(sym, tag) ==
  \E fetchFails \in BOOLEAN :
    LET r == first_trigger_price(orders, sym, tag, fetchFails)
    IN /\ Step
       /\ call' = [NoCall EXCEPT !.op = OpName("get", tag), !.sym = sym,
                                 !.out = r.out, !.num = r.num,
                                 !.enumFailed = fetchFails]
       /\ UNCHANGED <<orders, pos, mid, nextOid, newestFirst, filledIds, cancelledIds, ctl>>

get_stop_loss_price(sym) == GetTriggerPrice(sym, "sl")

get_take_profit_price(sym) == GetTriggerPrice(sym, "tp")

GetOpenOrders(symbol) ==
  \E fetchFails \in BOOLEAN, bad \in SUBSET OidsOf(FilterSymbol(orders, symbol)) :
    LET r == open_orders_converted(orders, symbol, fetchFails, bad)
    IN /\ Step
       /\ fetchFails => bad = {}
       /\ call' = [NoCall EXCEPT !.op = "get_open_orders", !.sym = symbol,
                                 !.out = r.out, !.list = r.list,
                                 !.enumFailed = fetchFails, !.bad = bad]
       /\ UNCHANGED <<orders, pos, mid, nextOid, newestFirst, filledIds, cancelledIds, ctl>>

\* has_active_orders: num is 1 for True, 0 for False
has_active_orders(symbol) ==
  \E fetchFails \in BOOLEAN :
    LET r == get_open_orders(orders, symbol, fetchFails)
    IN /\ Step
       /\ call' = [NoCall EXCEPT !.op = "has_active_orders", !.sym = symbol,
                                 !.out = r.out,
                                 !.num = IF Len(r.list) > 0 THEN 1 ELSE 0,
                                 !.enumFailed = fetchFails]
       /\ UNCHANGED <<orders, pos, mid, nextOid, newestFirst, filledIds, cancelledIds, ctl>>

\* ------------------------------------ buy / sell / close / stop_loss / ...
\* buy and sell: create_order with the side fixed, Gtc with a limit price and
\* Ioc without
Trade(op, sym, size, limit, isBuy) ==
  \E priceFails \in BOOLEAN, so \in {"resting", "filled", "error"} :
    LET tif == IF limit # 0 THEN "Gtc" ELSE "Ioc"
        r == create_order(Here, sym, size, isBuy, limit, FALSE, FALSE, tif, priceFails, so)
    IN /\ Step
       /\ so \in SubmitOutcomes(Here, sym, isBuy, FormatSize(sym, size), FALSE, tif)
       /\ priceFails => (limit = 0 /\ so = "error")
       /\ orders' = r.w.orders
       /\ nextOid' = r.w.nextOid
       /\ pos' = r.w.pos
       /\ filledIds' = filledIds \cup FilledIn(<<r.ord>>)
       /\ call' = [NoCall EXCEPT !.op = op, !.sym = sym, !.arg = limit,
                                 !.reqs = r.reqs, !.out = r.out, !.ord = r.ord]
       /\ UNCHANGED <<mid, newestFirst, cancelledIds, ctl>>

buy(sym, size, limit) == Trade("buy", sym, size, limit, TRUE)

sell(sym, size, limit) == Trade("sell", sym, size, limit, FALSE)

Close(sym) ==
  \E stateFails \in BOOLEAN, so \in {"filled", "error"} :
    LET r == close(Here, sym, FALSE, stateFails, FALSE, so)
    IN /\ Step
       /\ FindPosition(pos, sym) =>
            so \in SubmitOutcomes(Here, sym, pos[sym] < 0, FormatSize(sym, Abs(pos[sym])),
                                  TRUE, "Ioc")
       /\ (stateFails \/ ~FindPosition(pos, sym)) => so = "error"
       /\ orders' = r.w.orders
       /\ nextOid' = r.w.nextOid
       /\ pos' = r.w.pos
       /\ filledIds' = filledIds \cup FilledIn(<<r.ord>>)
       /\ call' = [NoCall EXCEPT !.op = "close", !.sym = sym, !.reqs = r.reqs,
                                 !.out = r.out, !.ord = r.ord]
       /\ UNCHANGED <<mid, newestFirst, cancelledIds, ctl>>

PlaceTrigger(sym, size, price, isBuy, tag) ==
  \E stateFails \in BOOLEAN, so \in {"resting", "error"} \cap TriggerOutcomes(Here) :
    LET r == place_trigger(Here, sym, size, price, isBuy, tag, stateFails, so)
    IN /\ Step
       /\ (stateFails \/ ~FindPosition(pos, sym)) => so = "error"
       /\ orders' = r.w.orders
       /\ nextOid' = r.w.nextOid
       /\ call' = [NoCall EXCEPT !.op = OpName("place", tag), !.sym = sym,
                                 !.arg = price, !.reqs = r.reqs, !.out = r.out,
                                 !.ord = r.ord]
       /\ UNCHANGED <<pos, mid, newestFirst, filledIds, cancelledIds, ctl>>

stop_loss(sym, size, price, isBuy) == PlaceTrigger(sym, size, price, isBuy, "sl")

take_profit(sym, size, price, isBuy) == PlaceTrigger(sym, size, price, isBuy, "tp")

ModifyOrder(oid, sym, isBuy, size, price, tag) ==
  \E mo \in {"resting", "error"} \cap ModifyOutcomes(Here, oid) :
    LET r == modify_order(Here, oid, sym, isBuy, size, price, tag,
                          IF tag = "limit" THEN 0 ELSE price, FALSE, mo)
    IN /\ Step
       /\ orders' = r.w.orders
       /\ call' = [NoCall EXCEPT !.op = "modify_order", !.sym = sym, !.arg = oid,
                                 !.reqs = r.reqs, !.out = r.out, !.ord = r.ord]
       /\ UNCHANGED <<pos, mid, nextOid, newestFirst, filledIds, cancelledIds, ctl>>

\* --------------------------------------------------------- the exchange
\* an open order fills (a trigger order fires): it leaves the book and moves
\* the position; trigger orders are reduce-only. No client call is in progress.
ExchangeFills ==
  \E i \in 1..Len(orders) :
    LET o == orders[i]
        np == AfterFill(pos, o.coin, o.isBuy, o.sz, o.kind # "limit")
    IN /\ Step
       /\ Abs(SizeOf(np, o.coin)) <= MaxLots * Lot
       /\ orders' = RemoveAll(orders, {o.oid})
       /\ pos' = np
       /\ filledIds' = filledIds \cup {o.oid}
       /\ call' = NoCall
       /\ UNCHANGED <<mid, nextOid, newestFirst, cancelledIds, ctl>>

\* the mid price of sym moves to another level
PriceMoves(sym, levels) ==
  \E m \in levels \ {mid[sym]} :
    /\ Step
    /\ mid' = [mid EXCEPT ![sym] = m]
    /\ call' = NoCall
    /\ UNCHANGED <<orders, pos, nextOid, newestFirst, filledIds, cancelledIds, ctl>>

\* ----------------------------------- order calls under every exchange answer
\* time_in_force of buy / sell: "Gtc" with a limit price, "Ioc" without
TimeInForceGtc(limit) == "Gtc"

TimeInForce(limit) == IF limit # 0 THEN "Gtc" ELSE "Ioc"

\* create_order, or buy / sell through it, with any answer of the exchange
CreateOrder(op, sym, size, isBuy, limit, ro, postOnly, tif) ==
  \E priceFails \in BOOLEAN,
     so \in SubmitOutcomes(Here, sym, isBuy, FormatSize(sym, size), ro, tif) :
    LET r == create_order(Here, sym, size, isBuy, limit, ro, postOnly, tif, priceFails, so)
    IN /\ Step
       /\ priceFails => (limit = 0 /\ so = "error")
       /\ r.reqs = <<>> => so = "error"
       /\ orders' = r.w.orders
       /\ nextOid' = r.w.nextOid
       /\ pos' = r.w.pos
       /\ filledIds' = filledIds \cup FilledIn(<<r.ord>>)
       /\ call' = [NoCall EXCEPT !.op = op, !.sym = sym, !.arg = limit,
                                 !.reqs = r.reqs, !.out = r.out, !.ord = r.ord,
                                 !.err = r.err,
                                 !.resp = IF r.reqs = <<>> THEN "none" ELSE so,
                                 !.isBuy = isBuy, !.size = size, !.postOnly = postOnly,
                                 !.tif = tif, !.readFailed = (limit = 0 /\ priceFails)]
       /\ UNCHANGED <<mid, newestFirst, cancelledIds, ctl>>

BuyOrder(sym, size, limit, ro, postOnly) ==
  CreateOrder("buy", sym, size, TRUE, limit, ro, postOnly, TimeInForce(limit))

SellOrder(sym, size, limit, ro, postOnly) ==
  CreateOrder("sell", sym, size, FALSE, limit, ro, postOnly, TimeInForce(limit))

\* close(symbol), or close(symbol, position) with the position the caller holds
ClosePosition(sym, given) ==
  \E stateFails \in BOOLEAN, priceFails \in BOOLEAN,
     so \in {"filled", "error", "raise", "weird"} :
    LET r == close(Here, sym, given, stateFails, priceFails, so)
    IN /\ Step
       /\ stateFails => (~given /\ ~priceFails)
       /\ r.reqs = <<>> => so = "error"
       /\ r.reqs # <<>> =>
            so \in SubmitOutcomes(Here, sym, pos[sym] < 0, FormatSize(sym, Abs(pos[sym])),
                                  TRUE, "Ioc")
       /\ orders' = r.w.orders
       /\ nextOid' = r.w.nextOid
       /\ pos' = r.w.pos
       /\ filledIds' = filledIds \cup FilledIn(<<r.ord>>)
       /\ call' = [NoCall EXCEPT !.op = "close", !.sym = sym, !.reqs = r.reqs,
                                 !.out = r.out, !.ord = r.ord, !.err = r.err,
                                 !.resp = IF r.reqs = <<>> THEN "none" ELSE so,
                                 !.given = given,
                                 !.readFailed = (r.reqs = <<>> /\ r.err = TransportError)]
       /\ UNCHANGED <<mid, newestFirst, cancelledIds, ctl>>

\* stop_loss / take_profit with any answer of the exchange
SubmitTrigger(sym, size, price, isBuy, tag) ==
  \E stateFails \in BOOLEAN, so \in TriggerOutcomes(Here) :
    LET r == place_trigger(Here, sym, size, price, isBuy, tag, stateFails, so)
    IN /\ Step
       /\ r.reqs = <<>> => so = "error"
       /\ orders' = r.w.orders
       /\ nextOid' = r.w.nextOid
       /\ call' = [NoCall EXCEPT !.op = OpName("place", tag), !.sym = sym,
                                 !.arg = price, !.reqs = r.reqs, !.out = r.out,
                                 !.ord = r.ord, !.err = r.err,
                                 !.resp = IF r.reqs = <<>> THEN "none" ELSE so,
                                 !.isBuy = isBuy, !.size = size,
                                 !.readFailed = (r.reqs = <<>> /\ r.err = TransportError)]
       /\ UNCHANGED <<pos, mid, newestFirst, filledIds, cancelledIds, ctl>>

\* ---------------------------------------------- _validate_and_format_order
\* formats the size size / 10^sizeDigits and the price price / 10^priceDigits;
\* the results are kept at the scale of the inputs
Format(sym, size, sizeDigits, price, priceDigits) ==
  LET r == validate_and_format_order(sym, size, sizeDigits, price, priceDigits)
  IN /\ Step
     /\ call' = [NoCall EXCEPT !.op = "format", !.sym = sym, !.size = size,
                               !.sizeDigits = sizeDigits, !.arg = price,
                               !.priceDigits = priceDigits, !.out = "ret",
                               !.ord = Report(0, sym, "none", "none", r.px, FALSE, r.sz)]
     /\ UNCHANGED <<orders, pos, mid, nextOid, newestFirst, filledIds, cancelledIds, ctl>>

\* -------------------------------------------------- get_optimal_limit_price
\* The urgency factor is k / UrgencySteps; bid and ask are the best bid and
\* the best ask of the book, 0 for an empty side.
UrgencyError == <<"urgency_factor must be between 0.0 and 1.0">>
SideError == <<"side must be 'buy' or 'sell'">>

InterpolateReversed(bid, ask, side, k) ==
  IF side = "buy" THEN ask - (k * (ask - bid)) \div UrgencySteps
  ELSE bid + (k * (ask - bid)) \div UrgencySteps

\* linear interpolation between the patient and the aggressive touch price
Interpolate(bid, ask, side, k) ==
  IF side = "buy" THEN bid + (k * (ask - bid)) \div UrgencySteps
  ELSE ask - (k * (ask - bid)) \div UrgencySteps

FallbackDiscount(current, side, premium) ==
  IF side = "buy" THEN current - premium ELSE current + premium

\* without a usable book: the current price moved by a small premium
Fallback(current, side, premium) ==
  IF side = "buy" THEN current + premium ELSE current - premium

get_optimal_limit_price(current, side, k, bid, ask, bookFails, premium) ==
  IF k \notin 0..UrgencySteps
  THEN [out |-> "raise", err |-> UrgencyError, price |-> 0, path |-> "none"]
  ELSE IF side \notin {"buy", "sell"}
  THEN [out |-> "raise", err |-> SideError, price |-> 0, path |-> "none"]
  ELSE IF bookFails \/ bid = 0 \/ ask = 0
  THEN [out |-> "ret", err |-> <<>>, price |-> Fallback(current, side, premium),
        path |-> "fallback"]
  ELSE [out |-> "ret", err |-> <<>>, price |-> Interpolate(bid, ask, side, k),
        path |-> "book"]

OptimalLimitPrice(sym, side, k, bid, ask) ==
  \E bookFails \in BOOLEAN, premium \in 0..MaxPremium :
    LET r == get_optimal_limit_price(mid[sym], side, k, bid, ask, bookFails, premium)
    IN /\ Step
       /\ bookFails => (bid = 0 /\ ask = 0)
       /\ r.path # "fallback" => premium = 0
       /\ (r.path = "fallback" /\ k > 0) => premium > 0
       /\ call' = [NoCall EXCEPT !.op = "get_optimal_limit_price", !.sym = sym,
                                 !.side = side, !.urgency = k, !.bid = bid, !.ask = ask,
                                 !.enumFailed = bookFails, !.out = r.out, !.err = r.err,
                                 !.price = r.price, !.path = r.path]
       /\ UNCHANGED <<orders, pos, mid, nextOid, newestFirst, filledIds, cancelledIds, ctl>>

\* ------------------------------- open_long_position / open_short_position
\* e.so: answer to the entry order; e.priceFailAt: which get_price raises
\* (1: the market entry's, 2: the one after the entry); e.slFails / e.tpFails:
\* the stop_loss / take_profit call raises; e.lookup: it is their position
\* lookup that raises
open_position(w, sym, size, sl, tp, limit, long, e) ==
  LET entry == create_order(w, sym, size, long, limit, FALSE, FALSE,
                            IF limit # 0 THEN "Gtc" ELSE "Ioc",
                            e.priceFailAt = 1, e.so)
      ref == IF limit # 0 THEN limit ELSE mid[sym]
      slWrong == IF long THEN sl >= ref ELSE sl <= ref
      tpWrong == IF long THEN tp <= ref ELSE tp >= ref
      raised(w1, reqs, wrong) ==
        [w |-> w1, reqs |-> reqs, out |-> "raise", ord |-> entry.ord, wrongSide |-> wrong]
  IN IF entry.out = "raise" THEN raised(entry.w, entry.reqs, FALSE)
     ELSE IF e.priceFailAt = 2 THEN raised(entry.w, entry.reqs, FALSE)
     ELSE IF sl # 0 /\ slWrong THEN raised(entry.w, entry.reqs, TRUE)
     ELSE
       LET s == IF sl # 0
                THEN place_trigger(entry.w, sym, size, sl, FALSE, "sl", e.lookup,
                                   IF e.slFails THEN "error" ELSE "resting")
                ELSE Res(entry.w, <<>>, "ret", NoOrder)
           sent == entry.reqs \o s.reqs
       IN IF s.out = "raise" THEN raised(s.w, sent, FALSE)
          ELSE IF tp # 0 /\ tpWrong THEN raised(s.w, sent, TRUE)
          ELSE
            LET t == IF tp # 0
                     THEN place_trigger(s.w, sym, size, tp, FALSE, "tp", e.lookup,
                                        IF e.tpFails THEN "error" ELSE "resting")
                     ELSE Res(s.w, <<>>, "ret", NoOrder)
            IN IF t.out = "raise" THEN raised(t.w, sent \o t.reqs, FALSE)
               ELSE [w |-> t.w, reqs |-> sent \o t.reqs, out |-> "ret",
                     ord |-> entry.ord, wrongSide |-> FALSE]

OpenPosition(sym, size, sl, tp, limit, long) ==
  \E so \in {"resting", "filled", "error"}, priceFailAt \in 0..2,
     slFails \in BOOLEAN, tpFails \in BOOLEAN, lookup \in BOOLEAN :
    LET e == [so |-> so, priceFailAt |-> priceFailAt, slFails |-> slFails,
              tpFails |-> tpFails, lookup |-> lookup]
        r == open_position(Here, sym, size, sl, tp, limit, long, e)
    IN /\ Step
       /\ so \in SubmitOutcomes(Here, sym, long, FormatSize(sym, size), FALSE,
                                 IF limit # 0 THEN "Gtc" ELSE "Ioc")
       /\ r.w.nextOid <= MaxOid + 1
       /\ orders' = r.w.orders
       /\ nextOid' = r.w.nextOid
       /\ pos' = r.w.pos
       /\ filledIds' = filledIds \cup FilledIn(<<r.ord>>)
       /\ call' = [NoCall EXCEPT
                     !.op = IF long THEN "open_long_position" ELSE "open_short_position",
                     !.sym = sym, !.arg = limit, !.reqs = r.reqs, !.out = r.out,
                     !.ord = r.ord, !.wrongSide = r.wrongSide]
       /\ UNCHANGED <<mid, newestFirst, cancelledIds, ctl>>

open_long_position(sym, size, sl, tp, limit) == OpenPosition(sym, size, sl, tp, limit, TRUE)

open_short_position(sym, size, sl, tp, limit) == OpenPosition(sym, size, sl, tp, limit, FALSE)

\* ------------------------------------------- the trailing-stop controller
\* ctl is the coroutine trailing_stop(client, symbol, trail_percent): pc is
\* "idle" before it starts, "loop" while it sleeps between two ticks and
\* "done" after it left; ref is reference_price, seen the stop-loss price
\* the last tick read, asked the new_sl_price the last tick passed to
\* update_stop_loss (0: none), lastAsked / prevAsked the last stop price it
\* issued and the one before, obs what the last tick observed, sent the
\* number of stop_loss / update_stop_loss calls it made.
has_position(p, sym) == sym \in DOMAIN p /\ p[sym] # 0

get_position_direction(p, sym) ==
  IF ~FindPosition(p, sym) THEN "none" ELSE IF p[sym] > 0 THEN "long" ELSE "short"

\* has_position(symbol) as a call: num is 1 for True, 0 for False
HasPosition(sym) ==
  \E stateFails \in BOOLEAN :
    /\ Step
    /\ call' = [NoCall EXCEPT !.op = "has_position", !.sym = sym,
                              !.out = IF stateFails THEN "raise" ELSE "ret",
                              !.num = IF ~stateFails /\ has_position(pos, sym) THEN 1 ELSE 0,
                              !.readFailed = stateFails]
    /\ UNCHANGED <<orders, pos, mid, nextOid, newestFirst, filledIds, cancelledIds, ctl>>

\* get_position_direction(symbol) as a call: side "none" is None
GetPositionDirection(sym) ==
  \E stateFails \in BOOLEAN :
    /\ Step
    /\ call' = [NoCall EXCEPT !.op = "get_position_direction", !.sym = sym,
                              !.out = IF stateFails THEN "raise" ELSE "ret",
                              !.side = IF stateFails THEN "none"
                                       ELSE get_position_direction(pos, sym),
                              !.readFailed = stateFails]
    /\ UNCHANGED <<orders, pos, mid, nextOid, newestFirst, filledIds, cancelledIds, ctl>>

\* current_price * (1 - trail_percent / 100), (1 + ...) for a short position
TrailStop(price, trail, dir) ==
  IF dir = "long" THEN (price * (100 - trail)) \div 100
  ELSE (price * (100 + trail)) \div 100

PriceChanged(dir, cur, ref) == cur # ref

\* "current_price > reference_price", "<" for a short position
PriceImproved(dir, cur, ref) == IF dir = "long" THEN cur > ref ELSE cur < ref

ShouldUpdateAlways(dir, new, sl) == TRUE

\* "new_sl_price > sl_price_float", "<" for a short position
ShouldUpdate(dir, new, sl) == IF dir = "long" THEN new > sl ELSE new < sl

\* one step of the coroutine: its state after it, the world after it, the
\* orders cancelled and the requests sent
Ctl(c, w, done, reqs) == [ctl |-> c, w |-> w, done |-> done, reqs |-> reqs]

ExitKeepsLooping(c, w, why) == Ctl([c EXCEPT !.obs = why, !.asked = 0], w, {}, <<>>)

\* return, break, or an exception leaving the coroutine
Exit(c, w, why) ==
  Ctl([c EXCEPT !.pc = "done", !.obs = why, !.asked = 0], w, {}, <<>>)

\* the environment of a call that is never made
Quiet == Env(0, FALSE, "raise", {}, "error")

\* the code before the loop
start(c, w, sym, trail, e) ==
  IF e.stateFails THEN Exit(c, w, "error")
  ELSE IF ~has_position(w.pos, sym) THEN Exit(c, w, "noPosition")
  ELSE IF e.priceFails THEN Exit(c, w, "error")
  ELSE
    LET dir == get_position_direction(w.pos, sym)
        cur == mid[sym]
        sl == first_trigger_price(w.orders, sym, "sl", e.fetchFails).num
        c1 == [c EXCEPT !.pc = "loop", !.sym = sym, !.dir = dir, !.trail = trail,
                        !.ref = cur, !.seen = sl, !.obs = "ok"]
    IN IF sl # 0 THEN Ctl(c1, w, {}, <<>>)
       ELSE
         LET price == TrailStop(cur, trail, dir)
             r == place_trigger(w, sym, Abs(w.pos[sym]), price, dir = "short", "sl",
                                e.upd.stateFailAt # 0, e.upd.so)
         IN IF r.out = "raise"
            THEN Ctl([c EXCEPT !.pc = "done", !.obs = "error", !.sent = c.sent + 1],
                     r.w, {}, r.reqs)
            ELSE Ctl([c1 EXCEPT !.sent = c.sent + 1, !.lastAsked = price],
                     r.w, {}, r.reqs)

\* one iteration of the loop
tick(c, w, e) ==
  IF e.stateFails THEN Exit(c, w, "error")
  ELSE IF ~has_position(w.pos, c.sym) THEN Exit(c, w, "noPosition")
  ELSE IF e.priceFails THEN Exit(c, w, "error")
  ELSE
    LET cur == mid[c.sym]
        sl == first_trigger_price(w.orders, c.sym, "sl", e.fetchFails).num
        new == TrailStop(cur, c.trail, c.dir)
        c0 == [c EXCEPT !.seen = sl, !.asked = 0, !.obs = "ok"]
        c1 == [c0 EXCEPT !.ref = cur]
    IN IF sl = 0 THEN Exit(c, w, "noStop")
       ELSE IF ~PriceImproved(c.dir, cur, c.ref) THEN Ctl(c0, w, {}, <<>>)
       ELSE IF ~ShouldUpdate(c.dir, new, sl) THEN Ctl(c1, w, {}, <<>>)
       ELSE
         LET r == update_trigger(w, c.sym, new, "sl", e.upd)
             c2 == [c1 EXCEPT !.asked = new, !.lastAsked = new,
                              !.prevAsked = c.lastAsked, !.sent = c.sent + 1]
         IN Ctl(IF r.out = "raise" THEN [c2 EXCEPT !.pc = "done", !.obs = "error"]
                ELSE c2,
                r.w, r.done, r.reqs)

CtlEnv(stateFails, priceFails, fetchFails, upd) ==
  [stateFails |-> stateFails, priceFails |-> priceFails, fetchFails |-> fetchFails,
   upd |-> upd]

\* the coroutine runs r, a step that met the environment e
CtlStep(r, e, sym, answered) ==
  /\ Step
  /\ e.stateFails => (~e.priceFails /\ ~e.fetchFails)
  /\ IF r.ctl.sent = ctl.sent THEN e.upd = Quiet ELSE answered
  /\ r.w.nextOid <= MaxOid + 1
  /\ ctl' = r.ctl
  /\ orders' = r.w.orders
  /\ nextOid' = r.w.nextOid
  /\ cancelledIds' = cancelledIds \cup r.done
  /\ call' = [NoCall EXCEPT !.op = "trailing_stop", !.sym = sym, !.reqs = r.reqs]
  /\ UNCHANGED <<pos, mid, newestFirst, filledIds>>

CtlStart(sym, trail) ==
  /\ ctl.pc = "idle"
  /\ \E stateFails \in BOOLEAN, priceFails \in BOOLEAN, fetchFails \in BOOLEAN,
        lookupFails \in 0..1, so \in {"resting", "error"} \cap TriggerOutcomes(Here) :
       LET e == CtlEnv(stateFails, priceFails, fetchFails,
                       Env(lookupFails, FALSE, "raise", {}, so))
       IN CtlStep(start(ctl, Here, sym, trail, e), e, sym,
                  lookupFails = 1 => so = "error")

CtlTick ==
  /\ ctl.pc = "loop"
  /\ \E stateFails \in BOOLEAN, priceFails \in BOOLEAN, fetchFails \in BOOLEAN,
        stateFailAt \in 0..3, updFetchFails \in BOOLEAN, mo \in {"resting", "raise"},
        fails \in SUBSET TaggedOids(orders, ctl.sym, "sl"),
        so \in {"resting", "error"} \cap TriggerOutcomes(Here) :
       LET upd == Env(stateFailAt, updFetchFails, mo, fails, so)
           e == CtlEnv(stateFails, priceFails, fetchFails, upd)
       IN CtlStep(tick(ctl, Here, e), e, ctl.sym, Answered(Here, ctl.sym, "sl", upd))

\* ------------------------------------------- HyperliquidClient.trailing_stop
\* one call of the client's trailing_stop: the stop is recomputed from the
\* current price and handed to update_stop_loss
trailing_stop(w, sym, trail, priceFails, stateFails, e) ==
  IF priceFails \/ stateFails
  THEN Upd(Res(w, <<>>, "raise", NoOrder), <<>>, "none", {}, TRUE)
  ELSE IF get_position_direction(w.pos, sym) = "none"
  THEN Upd(Res(w, <<>>, "ret", NoOrder), <<>>, "none", {}, FALSE)
  ELSE update_trigger(w, sym, TrailStop(mid[sym], trail, get_position_direction(w.pos, sym)),
                      "sl", e)

TrailingStop(sym, trail) ==
  \E priceFails \in BOOLEAN, stateFails \in BOOLEAN, stateFailAt \in 0..3,
     fetchFails \in BOOLEAN, mo \in {"resting", "raise"},
     fails \in SUBSET TaggedOids(orders, sym, "sl"),
     so \in {"resting", "error"} \cap TriggerOutcomes(Here) :
    LET e == Env(stateFailAt, fetchFails, mo, fails, so)
        r == trailing_stop(Here, sym, trail, priceFails, stateFails, e)
    IN /\ Step
       /\ priceFails => ~stateFails
       /\ IF priceFails \/ stateFails \/ ~FindPosition(pos, sym) THEN e = Quiet
          ELSE Answered(Here, sym, "sl", e)
       /\ orders' = r.w.orders
       /\ nextOid' = r.w.nextOid
       /\ cancelledIds' = cancelledIds \cup r.done
       /\ call' = [NoCall EXCEPT !.op = "client.trailing_stop", !.sym = sym,
                                 !.arg = trail, !.reqs = r.reqs, !.out = r.out,
                                 !.ord = r.ord, !.path = r.path,
                                 !.enumFailed = e.fetchFails,
                                 !.itemFailed = r.lookupFailed]
       /\ UNCHANGED <<pos, mid, newestFirst, filledIds, ctl>>

\* ---------------------------------------------------------- initial states
P(k) == k * PriceScale

\* every book of at most MaxBook open orders built from the templates, the
\* i-th listed order carrying id i
Books(templates) ==
  UNION {{[i \in 1..n |-> [f[i] EXCEPT !.oid = i]] : f \in [1..n -> templates]} :
         n \in 0..MaxBook}

\* every set of listed positions of at most MaxLots lots, long or short
Positions(syms) ==
  UNION {[d -> {n * Lot : n \in (0 - MaxLots)..MaxLots} \ {0}] : d \in SUBSET syms}

CtlIdle == [pc |-> "idle", sym |-> "none", dir |-> "none", trail |-> 0, ref |-> 0,
            seen |-> 0, asked |-> 0, lastAsked |-> 0, prevAsked |-> 0,
            obs |-> "none", sent |-> 0]

InitWith(books, positions, policies, budget) ==
  /\ orders \in books
  /\ pos \in positions
  /\ mid = [s \in Symbols |-> P(2000)]
  /\ nextOid = Len(orders) + 1
  /\ newestFirst \in policies
  /\ call = NoCall
  /\ filledIds = {}
  /\ cancelledIds = {}
  /\ ctl = CtlIdle
  /\ steps = budget

\* ------------------------------------------------ batch operations alone
BatchTemplates ==
  {BookOrder(0, c, k, P(1200), FALSE, Lot) : c \in Symbols, k \in {"limit", "sl"}}

\* an open book with no position, or positions with no open order
InitBatch ==
  /\ InitWith(Books(BatchTemplates), Positions(Symbols), {FALSE}, MaxCalls)
  /\ (orders = <<>> \/ DOMAIN pos = {})

NextBatch ==
  \/ \E symbol \in Symbols \cup {NoSymbol} : cancel_all_orders(symbol)
  \/ cancel_all
  \/ close_all_positions

SpecBatch == InitBatch /\ [][NextBatch]_vars

\* ------------------------------------------------------------------ claims
BatchOps == {"cancel_all_orders", "cancel_all", "close_all_positions"}

\* the open orders cancel_all_orders(symbol) has to cancel, in response order
Matching(ords, symbol) ==
  SelectSeq(ords, LAMBDA o : symbol = NoSymbol \/ o.coin = symbol)

\* C1: whenever cancel_all_orders / cancel_all has enumerated the open orders,
\* whatever subset of the cancel requests fails, the call sends exactly one
\* cancel request for every enumerated order (every order of the symbol when
\* one is given), in response order, and returns normally.
C1_CancelAllTolerant ==
  [][(call'.op \in {"cancel_all_orders", "cancel_all"} /\ ~call'.enumFailed) =>
       LET want == Matching(orders, call'.sym)
       IN /\ call'.out = "ret"
          /\ Len(call'.reqs) = Len(want)
          /\ \A i \in 1..Len(want) :
                call'.reqs[i] = CancelReq(want[i].coin, want[i].oid)]_vars

\* C1 witness: a symbol-filtered call in which a cancel request that was not
\* the last one failed (its order is still open) while an order of another
\* symbol was left alone
C1_Witness ==
  /\ call.op = "cancel_all_orders"
  /\ call.sym = "BTC"
  /\ call.itemFailed
  /\ Len(call.reqs) >= 2
  /\ call.reqs[1].oid \in OidsOf(orders)
  /\ call.reqs[2].oid \notin OidsOf(orders)
  /\ \E i \in 1..Len(orders) : orders[i].coin = "ETH"

\* C5: a batch operation raises exactly when its enumeration step failed: no
\* per-item failure makes it raise, and a failed enumeration is propagated.
C5_BatchFailsIffEnumerationFails ==
  call.op \in BatchOps => (call.out = "raise" <=> call.enumFailed)

BracketTemplates ==
  {BookOrder(0, "BTC", k, p, FALSE, Lot) : k \in {"sl", "tp"}, p \in {P(1200)}}

InitBracket ==
  InitWith(Books(BracketTemplates), Positions({"BTC"}), BOOLEAN, MaxCalls)

\* a new trigger price with more than five significant digits
NewStops == {P(1234) + 56}

NextBracket ==
  \/ \E p \in NewStops : update_stop_loss("BTC", p)
  \/ \E p \in NewStops : update_take_profit("BTC", p)
  \/ get_stop_loss_price("BTC")
  \/ get_take_profit_price("BTC")
  \/ \E symbol \in {"BTC", NoSymbol} : GetOpenOrders(symbol)
  \/ \E symbol \in {"BTC", NoSymbol} : has_active_orders(symbol)

SpecBracket == InitBracket /\ [][NextBracket]_vars

\* -------------------------------------------- opening a position from flat
InitOpen == InitWith({<<>>}, Positions({"BTC"}), {FALSE}, MaxCalls)

\* stop-loss / take-profit prices on either side of the entry, 0 for none
Brackets == {0, P(1800), P(2100)}

NextOpen ==
  \/ \E sl \in Brackets, tp \in Brackets, limit \in {0, P(1900)} :
       open_long_position("BTC", Lot, sl, tp, limit)
  \/ \E sl \in Brackets, tp \in Brackets, limit \in {0, P(1900)} :
       open_short_position("BTC", Lot, sl, tp, limit)

SpecOpen == InitOpen /\ [][NextOpen]_vars

\* ------------------------------------------- the life of orders, from flat
Init == InitWith({<<>>}, Positions({}), {FALSE}, MaxLife)

Next ==
  \/ \E limit \in {0, P(1900)} : buy("BTC", Lot, limit)
  \/ \E limit \in {0, P(2100)} : sell("BTC", Lot, limit)
  \/ stop_loss("BTC", Lot, P(1800), FALSE)
  \/ \E oid \in 1..MaxOid, tag \in {"limit", "sl"} :
       ModifyOrder(oid, "BTC", TRUE, Lot, P(1950), tag)
  \/ update_stop_loss("BTC", P(1850))
  \/ cancel_all_orders("BTC")
  \/ GetOpenOrders("BTC")
  \/ Close("BTC")
  \/ ExchangeFills

Spec == Init /\ [][Next]_vars

\* ---------------------------------------- a position under a trailing stop
\* the market, the exchange and the account's owner act while the controller
\* sleeps between two ticks
\* stop prices below the market for a long position, above it for a short one
CtlTemplates ==
  {BookOrder(0, "BTC", "sl", px, FALSE, Lot) : px \in {P(1010), P(1080)}}
    \cup {BookOrder(0, "BTC", "sl", px, TRUE, Lot) : px \in {P(2800), P(2900)}}

InitCtl ==
  /\ InitWith(Books(CtlTemplates), Positions({"BTC"}), BOOLEAN, MaxLife)
  /\ has_position(pos, "BTC")
  /\ Len(orders) < MaxBook
  /\ \A i \in 1..Len(orders) : orders[i].isBuy = (pos["BTC"] < 0)

PriceLevels == {P(1900), P(2000), P(2100), P(2200)}

NextCtl ==
  \/ \E trail \in {50} : CtlStart("BTC", trail)
  \/ CtlTick
  \/ ctl.pc = "loop" /\ PriceMoves("BTC", PriceLevels)
  \/ ctl.pc = "loop" /\ ExchangeFills
  \/ ctl.pc = "loop" /\ cancel_all_orders("BTC")

SpecCtl == InitCtl /\ [][NextCtl]_vars

\* --------------------------------------------- single order calls, any answer
InitOrder == InitWith({<<>>}, Positions({"BTC"}), {FALSE}, MaxCalls)

NextOrder ==
  \/ \E isBuy \in BOOLEAN, limit \in {0, P(1900)}, ro \in BOOLEAN, postOnly \in BOOLEAN,
        tif \in {"Gtc", "Ioc"} :
       CreateOrder("create_order", "BTC", Lot, isBuy, limit, ro, postOnly, tif)
  \/ \E limit \in {0, P(1900)}, postOnly \in BOOLEAN : BuyOrder("BTC", Lot, limit, FALSE, postOnly)
  \/ \E limit \in {0, P(2100)}, postOnly \in BOOLEAN : SellOrder("BTC", Lot, limit, FALSE, postOnly)
  \/ \E given \in BOOLEAN : ClosePosition("BTC", given)
  \/ \E isBuy \in BOOLEAN, tag \in {"sl", "tp"} : SubmitTrigger("BTC", Lot, P(1800), isBuy, tag)

SpecOrder == InitOrder /\ [][NextOrder]_vars

\* ------------------------------------------------ queries on a standing book
QueryTemplates ==
  {BookOrder(0, "BTC", "limit", P(1100), TRUE, Lot),
   BookOrder(0, "BTC", "sl", P(1200), FALSE, Lot),
   BookOrder(0, "BTC", "sl", P(1300), FALSE, Lot),
   BookOrder(0, "BTC", "tp", P(2500), FALSE, Lot),
   BookOrder(0, "ETH", "sl", P(1400), FALSE, Lot)}

InitQuery == InitWith(Books(QueryTemplates), Positions({}), {FALSE}, MaxCalls)

NextQuery ==
  \/ get_stop_loss_price("BTC")
  \/ get_take_profit_price("BTC")
  \/ \E symbol \in {"BTC", NoSymbol} : GetOpenOrders(symbol)

SpecQuery == InitQuery /\ [][NextQuery]_vars

\* ------------------------------------------------------ formatting of inputs
\* mantissas around the decimal digits 123456(7), around 99999.5 / 100000.5,
\* and short ones
PriceMantissas ==
  UNION {(c - Window)..(c + Window) : c \in {12345, 123456, 1234567, 1000000}}

SizeMantissas == (123456 - Window)..(123456 + Window)

\* one formatting call per behaviour: the formatter keeps no state
InitFormat == InitWith({<<>>}, Positions({}), {FALSE}, 1)

NextFormat ==
  /\ steps > 0
  /\ \E sym \in Symbols, size \in SizeMantissas, sizeDigits \in 3..(MaxDigits - 1),
        price \in PriceMantissas, priceDigits \in 0..MaxDigits :
       Format(sym, size, sizeDigits, price, priceDigits)

SpecFormat == InitFormat /\ [][NextFormat]_vars

\* ------------------------------------------------------------ optimal pricing
\* touch prices from 50000: spreads are whole multiples of the urgency step,
\* so that every interpolated price is exact
TouchPrices == {P(50000) + i * UrgencySteps : i \in 0..MaxSpread}

InitPricing == InitWith({<<>>}, Positions({}), {FALSE}, MaxCalls)

NextPricing ==
  /\ steps > 0
  /\ \E side \in {"buy", "sell", "hold"}, k \in 0..(UrgencySteps + 1),
        bid \in {0} \cup TouchPrices, ask \in {0} \cup TouchPrices :
       /\ (bid # 0 /\ ask # 0) => bid <= ask
       /\ OptimalLimitPrice("BTC", side, k, bid, ask)

SpecPricing == InitPricing /\ [][NextPricing]_vars

\* ----------------------------------- repeated calls of the client's trailing_stop
InitTrail ==
  /\ InitWith(Books(CtlTemplates), Positions({"BTC"}), {FALSE}, MaxCalls + 1)
  /\ Len(orders) < MaxBook
  /\ \A i \in 1..Len(orders) : FindPosition(pos, "BTC") /\ orders[i].isBuy = (pos["BTC"] < 0)

NextTrail ==
  \/ \E trail \in {50} : TrailingStop("BTC", trail)
  \/ PriceMoves("BTC", PriceLevels)

SpecTrail == InitTrail /\ [][NextTrail]_vars

\* --------------------------- position queries and closes, flat positions listed
\* the user state may list a position whose size is 0
ListedPositions(syms) ==
  UNION {[d -> {n * Lot : n \in (0 - MaxLots)..MaxLots}] : d \in SUBSET syms}

InitFlat == InitWith({<<>>}, ListedPositions(Symbols), {FALSE}, MaxCalls + 1)

NextFlat ==
  \/ \E sym \in Symbols : HasPosition(sym)
  \/ \E sym \in Symbols : GetPositionDirection(sym)
  \/ \E sym \in Symbols : ClosePosition(sym, FALSE)
  \/ close_all_positions

SpecFlat == InitFlat /\ [][NextFlat]_vars

UpdateOps == {"update_stop_loss", "update_take_profit"}

QueryOps ==
  {"get_open_orders", "get_stop_loss_price", "get_take_profit_price", "has_active_orders"}

TagOfOp(op) == IF op \in {"update_stop_loss", "get_stop_loss_price"} THEN "sl" ELSE "tp"

GetterOf(op) ==
  IF op = "update_stop_loss" THEN "get_stop_loss_price" ELSE "get_take_profit_price"

\* C3: when update_stop_loss(symbol, p) (update_take_profit) has returned an
\* order, the get_stop_loss_price(symbol) (get_take_profit_price) call that
\* follows returns p as formatted, whichever path the update took.
C3_GetterReturnsUpdatedPrice ==
  [][(/\ call.op \in UpdateOps
      /\ call.out = "ret"
      /\ call.ord # NoOrder
      /\ call'.op = GetterOf(call.op)
      /\ call'.sym = call.sym) =>
       call'.num = FormatPrice(call.arg)]_vars

\* the open orders of a symbol that carry a tpsl tag, in response order
Tagged(ords, sym, tag) == SelectSeq(ords, LAMBDA o : o.coin = sym /\ o.kind = tag)

\* the requests of a fallback: the modify that failed, one cancel for every
\* order of the classification, then n submissions
FallbackRequests(reqs, want, sym, tag, n) ==
  /\ Len(reqs) = 1 + Len(want) + n
  /\ reqs[1].t = "modify"
  /\ \A i \in 1..Len(want) : reqs[1 + i] = CancelReq(sym, want[i].oid)
  /\ \A i \in (Len(want) + 2)..Len(reqs) :
        reqs[i].t = "order" /\ reqs[i].kind = tag /\ reqs[i].coin = sym

\* C4 as claimed: a fallback requests the cancellation of every order of the
\* classification and then submits the replacement exactly once, whichever
\* cancellations failed.
C4_FallbackAlwaysResubmits ==
  [][call'.path = "fallback" =>
       FallbackRequests(call'.reqs,
                        Tagged(orders, call'.sym, TagOfOp(call'.op)),
                        call'.sym, TagOfOp(call'.op), 1)]_vars

\* C4 amended: a fallback requests the cancellation of every order of the
\* classification, whichever of them fail, and then submits the replacement
\* exactly once, unless a position lookup made after the cancel attempts
\* raises: then it submits nothing.
C4_FallbackResubmitsUnlessLookupFails ==
  [][call'.path = "fallback" =>
       FallbackRequests(call'.reqs,
                        Tagged(orders, call'.sym, TagOfOp(call'.op)),
                        call'.sym, TagOfOp(call'.op),
                        IF call'.itemFailed THEN 0 ELSE 1)]_vars

\* C4 witness: a fallback over two stop-loss orders whose first cancel failed
\* (the order is still open), whose second succeeded, and whose replacement
\* was then submitted and rests
C4_Witness ==
  /\ call.op = "update_stop_loss"
  /\ call.path = "fallback"
  /\ Len(call.reqs) = 4
  /\ call.reqs[2].oid \in OidsOf(orders)
  /\ call.reqs[3].oid \notin OidsOf(orders)
  /\ call.reqs[4].t = "order"
  /\ call.out = "ret"
  /\ call.ord.oid \in OidsOf(orders)

\* C7: a failed open-order fetch makes get_open_orders, get_stop_loss_price,
\* get_take_profit_price and has_active_orders raise.
C7_FetchFailurePropagates ==
  (call.op \in QueryOps /\ call.enumFailed) => call.out = "raise"

\* C8: when open_long_position / open_short_position rejects the stop-loss
\* or take-profit price as being on the wrong side of the entry price, the
\* call has submitted no order.
C8_WrongSideSubmitsNothing ==
  call.wrongSide => call.reqs = <<>>

\* the order ids the last call reported as open: the orders get_open_orders
\* listed and the order a placing or modifying call returned with status open
ReportedOpen ==
  (IF call.op = "get_open_orders"
   THEN {call.list[i].oid : i \in 1..Len(call.list)} ELSE {})
    \cup (IF call.out = "ret" /\ call.ord.status = "open" THEN {call.ord.oid} ELSE {})

\* C10: filled and cancelled are terminal: an order id that was reported
\* filled (or filled at the exchange) or was cancelled is never afterwards
\* reported open by get_open_orders, nor returned as the open order of a
\* successful modify_order / update_stop_loss.
C10_FilledAndCancelledAreTerminal ==
  ReportedOpen \cap (filledIds \cup cancelledIds) = {}

\* orders were filled and cancelled, and a later get_open_orders lists an
\* open order, or a later modify_order succeeds
C10_Witness ==
  /\ cancelledIds # {}
  /\ filledIds # {}
  /\ call.op \in {"get_open_orders", "modify_order"}
  /\ ReportedOpen # {}

\* C2 as stated: every update the controller issues moves the stop beyond the
\* stop it read on that tick, and the stop the controller reads never
\* retreats from one tick to the next.
C2_SeenStopNeverLoosens ==
  [][/\ (ctl'.asked # 0 =>
           IF ctl'.dir = "long" THEN ctl'.asked > ctl'.seen
           ELSE ctl'.asked < ctl'.seen)
     /\ (ctl.seen # 0 /\ ctl'.seen # 0 =>
           IF ctl'.dir = "long" THEN ctl'.seen >= ctl.seen
           ELSE ctl'.seen <= ctl.seen)]_vars

\* C2 amended: every update the controller issues has a trigger price beyond
\* the stop it read on that tick and beyond every stop price it issued
\* before (above for a long position, below for a short one).
C2_IssuedStopsOnlyTighten ==
  ctl.asked # 0 =>
    IF ctl.dir = "long"
    THEN ctl.asked > ctl.seen /\ (ctl.prevAsked # 0 => ctl.asked > ctl.prevAsked)
    ELSE ctl.asked < ctl.seen /\ (ctl.prevAsked # 0 => ctl.asked < ctl.prevAsked)

\* the controller seeded the stop itself and then moved it on a later tick
C2_Witness ==
  /\ ctl.asked # 0
  /\ ctl.prevAsked # 0
  /\ ctl.seen # 0

\* C9: a tick that finds the position gone, or no stop-loss order, makes no
\* stop_loss / update_stop_loss call and leaves the loop, and once the
\* controller has left it makes no call and sends no request any more.
C9_ControllerStopsForGood ==
  [][/\ (ctl'.obs \in {"noPosition", "noStop"} =>
           ctl'.pc = "done" /\ ctl'.sent = ctl.sent)
     /\ (ctl.pc = "done" => ctl' = ctl /\ call'.op # "trailing_stop")]_vars

\* the controller left on a vanished stop while the position is still open
C9_Witness ==
  /\ ctl.pc = "done"
  /\ ctl.obs = "noStop"
  /\ ctl.sent > 0
  /\ has_position(pos, ctl.sym)
  /\ TaggedOids(orders, ctl.sym, "sl") = {}

\* ------------------------------------------------------------ single order calls
OrderOps == {"create_order", "buy", "sell", "close", "stop_loss", "take_profit"}

CreateOps == {"create_order", "buy", "sell"}

Submissions(reqs) == SelectSeq(reqs, LAMBDA r : r.t = "order")

Mentions(err, text) == \E i \in DOMAIN err : err[i] = text

\* C11: create_order, buy, sell, close, stop_loss and take_profit send at most
\* one order-submission request per call, whatever the exchange answers: an
\* error answer, an answer of unexpected shape and a raising transport are
\* never followed by a second submission.
C11_AtMostOneSubmission ==
  call.op \in OrderOps => Len(Submissions(call.reqs)) <= 1

\* a call whose single submission met a raising transport and that then failed
C11_Witness ==
  /\ call.op \in OrderOps
  /\ call.resp = "raise"
  /\ call.out = "raise"
  /\ Len(Submissions(call.reqs)) = 1

\* C12: create_order turns a 'resting' answer into an Order with status open,
\* a 'filled' answer into an Order with status filled that carries the average
\* fill price, an 'error' answer into a failure whose text holds the exchange's
\* message verbatim, and any other answer into an unexpected-response failure;
\* a failing call returns no Order.
C12_AnswerInterpreted ==
  (call.op \in CreateOps /\ call.resp # "none") =>
    /\ call.resp = "resting" => (call.out = "ret" /\ call.ord.status = "open")
    /\ call.resp = "filled" =>
         (call.out = "ret" /\ call.ord.status = "filled" /\ call.ord.avg = mid[call.sym])
    /\ call.resp = "error" =>
         (call.out = "raise" /\ Mentions(call.err, "Order error")
                             /\ Mentions(call.err, "Insufficient margin"))
    /\ call.resp = "weird" =>
         (call.out = "raise" /\ Mentions(call.err, "Unexpected response format"))
    /\ call.out = "raise" => call.ord = NoOrder
    /\ call.out = "ret" => call.resp \in {"resting", "filled"}

\* an order rejected by the exchange, the rejection handed to the caller
C12_Witness ==
  /\ call.op = "create_order"
  /\ call.resp = "error"
  /\ call.out = "raise"
  /\ Len(call.reqs) = 1

\* C13: create_order with post_only and time in force 'Ioc' fails and submits
\* nothing; unless the price fetch of a market order failed first, the failure
\* is the post_only / IOC configuration error. buy and sell with post_only and
\* no limit price are such calls.
C13_PostOnlyNeverIoc ==
  /\ (call.op \in CreateOps /\ call.postOnly /\ call.tif = "Ioc") =>
       /\ call.out = "raise"
       /\ call.reqs = <<>>
       /\ ~call.readFailed => call.err = <<"post_only cannot be used with IOC orders">>
  /\ (call.op \in {"buy", "sell"} /\ call.postOnly /\ call.arg = 0) =>
       /\ call.out = "raise"
       /\ call.reqs = <<>>
       /\ ~call.readFailed => call.err = <<"post_only cannot be used with IOC orders">>

\* buy with post_only and no limit price, rejected for its configuration
C13_Witness ==
  /\ call.op = "buy"
  /\ call.postOnly
  /\ call.arg = 0
  /\ call.out = "raise"
  /\ call.err = <<"post_only cannot be used with IOC orders">>

\* C14: when its position and price reads succeed, close(symbol) on a position
\* of signed size s submits exactly one immediate-or-cancel reduce-only order
\* of size |s| that buys iff s < 0; with no position for the symbol it fails
\* with the no-position error and submits nothing.
C14_CloseOpposesPosition ==
  [][(call'.op = "close" /\ ~call'.readFailed) =>
       IF call'.sym \in DOMAIN pos
       THEN /\ Len(call'.reqs) = 1
            /\ call'.reqs[1].t = "order"
            /\ call'.reqs[1].coin = call'.sym
            /\ call'.reqs[1].tif = "Ioc"
            /\ call'.reqs[1].ro
            /\ call'.reqs[1].sz = (IF pos[call'.sym] < 0 THEN 0 - pos[call'.sym]
                                                        ELSE pos[call'.sym])
            /\ call'.reqs[1].isBuy = (pos[call'.sym] < 0)
       ELSE /\ call'.out = "raise"
            /\ call'.reqs = <<>>
            /\ call'.err = <<"No open position found">>]_vars

\* a short position closed by a buy order that filled
C14_Witness ==
  /\ call.op = "close"
  /\ call.resp = "filled"
  /\ Len(call.reqs) = 1
  /\ call.reqs[1].isBuy
  /\ call.ord.status = "filled"

\* C15: when the position read succeeds, stop_loss / take_profit without a
\* position for the symbol fail with the no-position error before any order is
\* submitted, and with a position submit exactly one reduce-only trigger order
\* tagged 'sl' / 'tp' with the caller's is_buy.
C15_TriggerRequiresPosition ==
  [][(call'.op \in {"stop_loss", "take_profit"} /\ ~call'.readFailed) =>
       IF call'.sym \in DOMAIN pos
       THEN /\ Len(call'.reqs) = 1
            /\ call'.reqs[1].t = "order"
            /\ call'.reqs[1].coin = call'.sym
            /\ call'.reqs[1].ro
            /\ call'.reqs[1].kind = (IF call'.op = "stop_loss" THEN "sl" ELSE "tp")
            /\ call'.reqs[1].isBuy = call'.isBuy
       ELSE /\ call'.out = "raise"
            /\ call'.reqs = <<>>
            /\ call'.err = <<"No position found">>]_vars

\* take_profit refused on a flat account
C15_Witness ==
  /\ call.op = "take_profit"
  /\ call.out = "raise"
  /\ call.reqs = <<>>
  /\ call.err = <<"No position found">>
  /\ pos = <<>>

PlacesOf(sym, tag) == {i \in DOMAIN orders : orders[i].coin = sym /\ orders[i].kind = tag}

FirstOf(places) == CHOOSE i \in places : \A j \in places : i <= j

\* C17: get_stop_loss_price / get_take_profit_price return None when the
\* symbol has no open order of the classification and otherwise the trigger
\* price of the first such order in the exchange's response order, however
\* many there are.
C17_GetterReturnsFirstOfClass ==
  call.op \in {"get_stop_loss_price", "get_take_profit_price"} =>
    /\ call.out = "ret"
    /\ call.num = (IF PlacesOf(call.sym, TagOfOp(call.op)) = {} THEN 0
                   ELSE orders[FirstOf(PlacesOf(call.sym, TagOfOp(call.op)))].px)

BookEntry(oid) == orders[CHOOSE i \in DOMAIN orders : orders[i].oid = oid]

\* C18: every Order get_open_orders returns has exactly one of
\* order_type.limit / order_type.trigger populated, status open and, when a
\* symbol was given, that symbol; an order the exchange flags as trigger is a
\* take_profit when its order-type text contains 'Take Profit' and otherwise a
\* stop_loss when the text contains 'Stop'; an order not flagged is a limit.
C18_OpenOrdersClassified ==
  call.op = "get_open_orders" =>
    \A i \in DOMAIN call.list :
      LET o == call.list[i]
          raw == RawOrder(BookEntry(o.oid))
          takeProfit == Contains(raw.orderType, <<"Take", "Profit">>)
          stop == Contains(raw.orderType, <<"Stop">>)
      IN /\ (o.order_type.limit = <<>>) # (o.order_type.trigger = <<>>)
         /\ (o.order_type.trigger # <<>>) = raw.isTrigger
         /\ (raw.isTrigger /\ takeProfit) => o.type = "take_profit"
         /\ (raw.isTrigger /\ ~takeProfit /\ stop) => o.type = "stop_loss"
         /\ ~raw.isTrigger => o.type = "limit"
         /\ o.status = "open"
         /\ call.sym # NoSymbol => o.sym = call.sym

\* a stop-loss and a take-profit of the symbol asked for returned, an order of
\* another symbol left out
C18_Witness ==
  /\ call.op = "get_open_orders"
  /\ call.sym = "BTC"
  /\ {call.list[i].type : i \in DOMAIN call.list} = {"stop_loss", "take_profit"}
  /\ \E i \in DOMAIN orders : orders[i].coin = "ETH"

\* ------------------------------------------------------------------ formatting
Distance(a, b) == IF a < b THEN b - a ELSE a - b

\* r is m rounded to a multiple of q: a nearest multiple
NearestMultiple(r, m, q) == r % q = 0 /\ 2 * Distance(r, m) <= q

Formatted(sym, size, sizeDigits, price, priceDigits) ==
  /\ call.op = "format"
  /\ call.sym = sym
  /\ call.size = size
  /\ call.sizeDigits = sizeDigits
  /\ call.arg = price
  /\ call.priceDigits = priceDigits

\* C19: the formatter rounds the size to the symbol's size_decimals (3 for a
\* symbol without market specs), a price above 100000 to the nearest integer
\* and any other price to five significant digits: 123456.7 gives 123457,
\* 1234.567 gives 1234.6, 12345.6 gives 12346 and 0.012345 stays 0.012345.
C19_FormatRounds ==
  call.op = "format" =>
    LET decimals == IF call.sym \in DOMAIN market_specs THEN market_specs[call.sym] ELSE 3
        unit == 10 ^ call.priceDigits
        above == call.arg \div unit > 100000
                   \/ (call.arg \div unit = 100000 /\ call.arg % unit > 0)
    IN /\ IF call.sizeDigits <= decimals THEN call.ord.sz = call.size
          ELSE NearestMultiple(call.ord.sz, call.size, 10 ^ (call.sizeDigits - decimals))
       /\ IF above THEN NearestMultiple(call.ord.px, call.arg, unit)
          ELSE IF NumDigits(call.arg) <= 5 THEN call.ord.px = call.arg
          ELSE NearestMultiple(call.ord.px, call.arg, 10 ^ (NumDigits(call.arg) - 5))
       /\ (call.arg = 1234567 /\ call.priceDigits = 1) => call.ord.px = 1234570
       /\ (call.arg = 1234567 /\ call.priceDigits = 3) => call.ord.px = 1234600
       /\ (call.arg = 123456 /\ call.priceDigits = 1) => call.ord.px = 123460
       /\ (call.arg = 12345 /\ call.priceDigits = 6) => call.ord.px = 12345

\* 1.23456 of a symbol without market specs and 123456.7 formatted to 1.235
\* and 123457
C19_Witness ==
  /\ Formatted("ETH", 123456, 5, 1234567, 1)
  /\ call.ord.sz = 123500
  /\ call.ord.px = 1234570

\* -------------------------------------------------------------- optimal pricing
\* a call that priced from a usable book
FromBook(c) ==
  /\ c.op = "get_optimal_limit_price"
  /\ c.side \in {"buy", "sell"}
  /\ c.urgency \in 0..UrgencySteps
  /\ c.bid # 0
  /\ c.ask # 0
  /\ ~c.enumFailed

\* C20: on a book with a best bid and a best ask the optimal limit price is
\* best_bid + u * (best_ask - best_bid) for a buy and
\* best_ask - u * (best_ask - best_bid) for a sell (u = urgency / UrgencySteps); so it
\* is best_bid (buy) / best_ask (sell) at u = 0, best_ask (buy) / best_bid
\* (sell) at u = 1, lies within [best_bid, best_ask], and between two calls on
\* the same book and side does not fall (buy) / rise (sell) when u grows.
C20_OptimalPriceInterpolates ==
  [][FromBook(call') =>
       /\ call'.out = "ret"
       /\ call'.side = "buy" =>
            UrgencySteps * call'.price = UrgencySteps * call'.bid + call'.urgency * (call'.ask - call'.bid)
       /\ call'.side = "sell" =>
            UrgencySteps * call'.price = UrgencySteps * call'.ask - call'.urgency * (call'.ask - call'.bid)
       /\ call'.urgency = 0 =>
            call'.price = (IF call'.side = "buy" THEN call'.bid ELSE call'.ask)
       /\ call'.urgency = UrgencySteps =>
            call'.price = (IF call'.side = "buy" THEN call'.ask ELSE call'.bid)
       /\ call'.bid <= call'.price
       /\ call'.price <= call'.ask
       /\ (/\ FromBook(call)
           /\ call.side = call'.side
           /\ call.bid = call'.bid
           /\ call.ask = call'.ask
           /\ call.urgency <= call'.urgency) =>
            IF call'.side = "buy" THEN call.price <= call'.price
            ELSE call.price >= call'.price]_vars

\* a buy priced one urgency step into a spread of two price steps per urgency step
C20_Witness ==
  /\ FromBook(call)
  /\ call.side = "buy"
  /\ call.urgency = 1
  /\ call.ask - call.bid = 2 * UrgencySteps
  /\ call.price = call.bid + 2
  /\ call.out = "ret"

\* a call with a valid side and urgency that found no usable book
WithoutBook(c) ==
  /\ c.op = "get_optimal_limit_price"
  /\ c.side \in {"buy", "sell"}
  /\ c.urgency \in 0..UrgencySteps
  /\ (c.enumFailed \/ c.bid = 0 \/ c.ask = 0)

\* C21: with a valid side and urgency, when the order-book fetch fails or a
\* side of the book is empty, get_optimal_limit_price returns instead of
\* raising, and its price is at or above the current price for a buy and at or
\* below it for a sell, strictly so when the urgency is above 0.
C21_FallbackPriceFromCurrent ==
  WithoutBook(call) =>
    /\ call.out = "ret"
    /\ call.side = "buy" => call.price >= mid[call.sym]
    /\ call.side = "sell" => call.price <= mid[call.sym]
    /\ (call.side = "buy" /\ call.urgency > 0) => call.price > mid[call.sym]
    /\ (call.side = "sell" /\ call.urgency > 0) => call.price < mid[call.sym]

\* a sell priced below the current price after the book fetch failed
C21_Witness ==
  /\ WithoutBook(call)
  /\ call.enumFailed
  /\ call.side = "sell"
  /\ call.urgency > 0
  /\ call.out = "ret"
  /\ call.price < mid[call.sym]

\* ----------------------------------------------------- requests of the updates
\* C22: in every order and modify request that update_stop_loss,
\* update_take_profit, stop_loss and take_profit send, the size is a formatted
\* size and the limit price and the trigger price are the formatter's output
\* for the price the caller asked for.
C22_RequestsCarryFormattedValues ==
  call.op \in UpdateOps \cup {"stop_loss", "take_profit"} =>
    \A i \in DOMAIN call.reqs :
      call.reqs[i].t \in {"order", "modify"} =>
        /\ call.reqs[i].sz = FormatSize(call.sym, call.reqs[i].sz)
        /\ call.reqs[i].px = FormatPrice(call.arg)
        /\ call.reqs[i].trig = FormatPrice(call.arg)

\* C27: update_stop_loss / update_take_profit on a symbol without a position
\* return None: they do not raise and they send no request.
C27_UpdateWithoutPositionReturnsNone ==
  (call.op \in UpdateOps /\ call.sym \notin DOMAIN pos /\ ~call.itemFailed) =>
    /\ call.out = "ret"
    /\ call.ord = NoOrder
    /\ call.reqs = <<>>

\* ------------------------------------------------ reference price of the controller
\* the controller ran a tick and is still looping, or issued an update on it
Ticked ==
  /\ ctl.pc = "loop"
  /\ call'.op = "trailing_stop"
  /\ (ctl'.pc = "loop" \/ ctl'.sent # ctl.sent)

Favourable(dir, price, ref) == IF dir = "long" THEN price > ref ELSE price < ref

\* C25: the controller's reference price is the price read at start and, after
\* every tick that keeps it running, the larger (long) / smaller (short) of
\* the reference before the tick and the price read on it, so it is the
\* maximum / minimum of all prices read; a tick whose price is not strictly
\* beyond the reference leaves the reference alone and issues no stop-loss
\* update. With a trail of 2% an uptick to 110 proposes a stop of 107.8.
C25_ReferenceIsRunningExtreme ==
  [][/\ (ctl.pc = "idle" /\ ctl'.pc = "loop") => ctl'.ref = mid[ctl'.sym]
     /\ Ticked =>
          /\ ctl'.ref = (IF Favourable(ctl.dir, mid[ctl.sym], ctl.ref)
                         THEN mid[ctl.sym] ELSE ctl.ref)
          /\ ~Favourable(ctl.dir, mid[ctl.sym], ctl.ref) =>
               /\ ctl'.ref = ctl.ref
               /\ ctl'.sent = ctl.sent
               /\ call'.reqs = <<>>
     /\ 10 * TrailStop(110 * PriceScale, 2, "long") = 1078 * PriceScale]_vars

\* a long position whose stop the controller has set, on a later tick at a
\* price below the reference
C25_Witness ==
  /\ ctl.pc = "loop"
  /\ ctl.dir = "long"
  /\ ctl.obs = "ok"
  /\ call.op = "trailing_stop"
  /\ ctl.lastAsked # 0
  /\ ctl.asked = 0
  /\ mid[ctl.sym] < ctl.ref

\* ------------------------------------------------ the client's trailing_stop
\* C23: HyperliquidClient.trailing_stop never asks for a stop-loss of a long
\* position below an open stop-loss of the symbol (of a short position above
\* one), however the price moved between calls; without a position it
\* returns None and sends nothing.
C23_TrailingStopNeverRetreats ==
  [][call'.op = "client.trailing_stop" =>
       /\ \A i \in DOMAIN orders, j \in DOMAIN call'.reqs :
            (/\ orders[i].coin = call'.sym
             /\ orders[i].kind = "sl"
             /\ call'.sym \in DOMAIN pos
             /\ call'.reqs[j].t \in {"order", "modify"}) =>
              IF pos[call'.sym] > 0 THEN call'.reqs[j].trig >= orders[i].px
              ELSE call'.reqs[j].trig <= orders[i].px
       /\ (call'.sym \notin DOMAIN pos /\ ~call'.itemFailed) =>
            (call'.out = "ret" /\ call'.ord = NoOrder /\ call'.reqs = <<>>)]_vars

\* -------------------------------------------- a fallback whose recreation fails
\* C24: when update_stop_loss / update_take_profit takes the cancel-and-create
\* fallback, every order of the classification is cancelled and the
\* replacement is not placed (the submission is refused, or a position lookup
\* before it raises), the call raises and the symbol is left with no order of
\* that classification.
C24_FailedRecreationRaises ==
  [][(/\ call'.op \in UpdateOps
      /\ call'.path = "fallback"
      /\ TaggedOids(orders, call'.sym, TagOfOp(call'.op)) \subseteq cancelledIds'
      /\ nextOid' = nextOid) =>
       /\ call'.out = "raise"
       /\ call'.ord = NoOrder
       /\ Tagged(orders', call'.sym, TagOfOp(call'.op)) = <<>>]_vars

\* C24 witness: a fallback of update_stop_loss that sent the modify, had its
\* cancel accepted, submitted the replacement and raised on the answer, with no
\* stop-loss order left
C24_Witness ==
  /\ call.op = "update_stop_loss"
  /\ call.path = "fallback"
  /\ Len(call.reqs) >= 3
  /\ call.reqs[2].t = "cancel"
  /\ call.reqs[2].oid \in cancelledIds
  /\ call.reqs[Len(call.reqs)].t = "order"
  /\ call.out = "raise"
  /\ Tagged(orders, call.sym, "sl") = <<>>

\* ------------------------------------------- cancel_all_orders and its symbol
\* the open orders of the other symbols, in response order
Others(ords, symbol) == SelectSeq(ords, LAMBDA o : o.coin # symbol)

\* C30: cancel_all_orders(symbol) requests cancellations only of open orders
\* whose coin is the symbol and leaves the open orders of every other symbol
\* as they were; called without a symbol, once the open orders are
\* enumerated, it requests one cancellation for every open order.
C30_CancelAllOrdersFiltersBySymbol ==
  [][call'.op = "cancel_all_orders" =>
       /\ \A j \in DOMAIN call'.reqs :
            /\ call'.reqs[j].t = "cancel"
            /\ \E i \in DOMAIN orders :
                 /\ orders[i].oid = call'.reqs[j].oid
                 /\ orders[i].coin = call'.reqs[j].coin
                 /\ call'.sym # NoSymbol => orders[i].coin = call'.sym
       /\ call'.sym # NoSymbol =>
            Others(orders', call'.sym) = Others(orders, call'.sym)
       /\ (call'.sym = NoSymbol /\ ~call'.enumFailed) =>
            /\ Len(call'.reqs) = Len(orders)
            /\ \A i \in DOMAIN orders : call'.reqs[i].oid = orders[i].oid]_vars

\* C30 witness: cancel_all_orders("BTC") sent a cancel request while an order of
\* another symbol was open, and that order is still open
C30_Witness ==
  /\ call.op = "cancel_all_orders"
  /\ call.sym = "BTC"
  /\ call.reqs # <<>>
  /\ \A j \in DOMAIN call.reqs : call.reqs[j].oid \notin OidsOf(orders)
  /\ Others(orders, "BTC") # <<>>

\* --------------------------------------- conversion failures in get_open_orders
\* the raw orders a call with this symbol is answered with that convert
Convertible(ords, symbol, bad) ==
  SelectSeq(ords, LAMBDA o : (symbol = NoSymbol \/ o.coin = symbol) /\ o.oid \notin bad)

\* C26: when the open orders were fetched, get_open_orders returns exactly the
\* conversions of the raw orders (of the symbol, when one is given) whose
\* conversion succeeds, in response order; an order whose conversion raises is
\* skipped and neither aborts the call nor changes the others.
C26_ConversionFailuresIsolated ==
  (call.op = "get_open_orders" /\ ~call.enumFailed) =>
    LET want == Convertible(orders, call.sym, call.bad)
    IN /\ call.out = "ret"
       /\ Len(call.list) = Len(want)
       /\ \A i \in DOMAIN want : call.list[i] = ConvertOrder(RawOrder(want[i]))

\* C26 witness: a call in which the conversion of one raw order raised and a
\* later order of the response was returned
C26_Witness ==
  /\ call.op = "get_open_orders"
  /\ ~call.enumFailed
  /\ \E i, j \in DOMAIN orders :
       /\ i < j
       /\ orders[i].oid \in call.bad
       /\ orders[j].oid \notin call.bad
       /\ \E k \in DOMAIN call.list : call.list[k].oid = orders[j].oid

\* ----------------------------------------- one protective order per symbol
\* C28: a call of update_stop_loss (update_take_profit) on a symbol with at
\* most one stop-loss (take-profit) order leaves it with at most one, whether
\* it creates, modifies or falls back, and whichever cancellations and fetches
\* fail.
C28_AtMostOneProtectiveOrder ==
  [][(/\ call'.op \in UpdateOps
      /\ Len(Tagged(orders, call'.sym, TagOfOp(call'.op))) <= 1) =>
       Len(Tagged(orders', call'.sym, TagOfOp(call'.op))) <= 1]_vars

\* ------------------------------------------------- agreement on "no position"
\* C29: whatever the user state lists, a position of size 0 included,
\* has_position(symbol) is False exactly when get_position_direction(symbol)
\* is None, close(symbol) then raises the no-open-position error, and neither
\* close nor close_all_positions submits an order of size 0.
C29_NoPositionAgreed ==
  [][/\ (call'.op = "has_position" /\ ~call'.readFailed) =>
          ((call'.num = 0) <=> (get_position_direction(pos, call'.sym) = "none"))
     /\ (call'.op = "get_position_direction" /\ ~call'.readFailed) =>
          ((call'.side = "none") <=> ~has_position(pos, call'.sym))
     /\ (call'.op = "close" /\ ~call'.readFailed /\ ~has_position(pos, call'.sym)) =>
          (call'.out = "raise" /\ call'.err = NoPositionToClose /\ call'.reqs = <<>>)
     /\ call'.op \in {"close", "close_all_positions"} =>
          \A j \in DOMAIN call'.reqs : call'.reqs[j].sz # 0]_vars

====
